---------------------------- MODULE Spec2Model ----------------------------
(***************************************************************************)
(* Model of monitor_deniky.py: one scheduled run of main() loads the seen  *)
(* articles, fetches every source's feed, marks new articles as seen,      *)
(* keeps the ones that match a keyword, saves the seen articles and        *)
(* appends the matches to the alert log.                                   *)
(*                                                                         *)
(* Text is a sequence of characters, each a string; a character outside    *)
(* printable ASCII is named by its code point ("U+00FA").  A key that a    *)
(* feed entry lacks is the empty text: the code reads every key through    *)
(* entry.get(k, "") or through `or`, which treat the two alike.            *)
(***************************************************************************)
EXTENDS Integers, Sequences, FiniteSets, TLC

(***************************************************************************)
(* Bounds of the model.                                                    *)
(***************************************************************************)
\* longest feed (number of entries) one parse returns
MaxFeedLen == 2
\* number of runs of main() in a behaviour
MaxRuns == 2

(***************************************************************************)
(* Characters.  A printable ASCII character is itself; tab, line feed,     *)
(* form feed and carriage return are "\t", "\n", "\f", "\r"; every other   *)
(* character is named by its code point.                                   *)
(***************************************************************************)
HexDigits ==
    <<"0", "1", "2", "3", "4", "5", "6", "7", "8", "9",
      "A", "B", "C", "D", "E", "F">>

RECURSIVE Hex(_, _)
\* n in hexadecimal, in at least w digits
Hex(n, w) ==
    IF n < 16 /\ w <= 1 THEN HexDigits[n + 1]
    ELSE Hex(n \div 16, w - 1) \o HexDigits[(n % 16) + 1]

\* the characters U+0020 to U+007E, in order (the grave accent by its name)
Printable ==
    <<
      " ", "!", "\"", "#", "$", "%", "&", "'", "(", ")", "*", "+", ",", "-",
      ".", "/", "0", "1", "2", "3", "4", "5", "6", "7", "8", "9", ":", ";",
      "<", "=", ">", "?", "@", "A", "B", "C", "D", "E", "F", "G", "H", "I",
      "J", "K", "L", "M", "N", "O", "P", "Q", "R", "S", "T", "U", "V", "W",
      "X", "Y", "Z", "[", "\\", "]", "^", "_", "U+0060", "a", "b", "c", "d", "e",
      "f", "g", "h", "i", "j", "k", "l", "m", "n", "o", "p", "q", "r", "s",
      "t", "u", "v", "w", "x", "y", "z", "{", "|", "}", "~" >>

\* chr(n)
Chr(n) ==
    CASE n = 9  -> "\t"
      [] n = 10 -> "\n"
      [] n = 12 -> "\f"
      [] n = 13 -> "\r"
      [] n \in 32..126 -> Printable[n - 31]
      [] OTHER -> "U+" \o Hex(n, 4)

\* the characters whose code points lie in one of the ranges
CharsIn(ranges) ==
    UNION {{Chr(n) : n \in ranges[i][1]..ranges[i][2]} : i \in 1..Len(ranges)}

\* the characters UTF-8 cannot encode: the surrogates U+D800 to U+DFFF
Surrogates == CharsIn(<< <<55296, 57343>> >>)

\* the characters UTF-8 encodes in one byte and in two bytes
OneByteChars == CharsIn(<< <<0, 127>> >>)
TwoByteChars == CharsIn(<< <<128, 2047>> >>)

\* len(c.encode("utf-8")): a character of three bytes has a name of six
\* characters ("U+XXXX"), one of four bytes a longer name
Utf8Len(c) ==
    IF c \in OneByteChars THEN 1
    ELSE IF c \in TwoByteChars THEN 2
    ELSE IF Len(c) = 6 THEN 3
    ELSE 4

\* the first k bytes of the UTF-8 encoding of c, 0 < k < Utf8Len(c): what a
\* file ends with when a write stops inside the character
PartChar(c, k) == c \o "/" \o HexDigits[k + 1]

(***************************************************************************)
(* Text helpers (Python str).                                              *)
(***************************************************************************)
RECURSIVE Flatten(_)
\* "".join(parts)
Flatten(parts) ==
    IF parts = <<>> THEN <<>> ELSE Head(parts) \o Flatten(Tail(parts))

\* needle in hay, for two texts (substring test; "" is in every text)
Contains(needle, hay) ==
    \E i \in 0..(Len(hay) - Len(needle)) :
        SubSeq(hay, i + 1, i + Len(needle)) = needle

\* The characters c for which c.lower() is one other character and, at the
\* same place, that character (Unicode 14.0, the tables of Python 3.11).
UpperChars ==
    <<
      "A", "B", "C", "D", "E", "F", "G", "H", "I", "J", "K", "L", "M", "N",
      "O", "P", "Q", "R", "S", "T", "U", "V", "W", "X", "Y", "Z", "U+00C0",
      "U+00C1", "U+00C2", "U+00C3", "U+00C4", "U+00C5", "U+00C6", "U+00C7",
      "U+00C8", "U+00C9", "U+00CA", "U+00CB", "U+00CC", "U+00CD", "U+00CE",
      "U+00CF", "U+00D0", "U+00D1", "U+00D2", "U+00D3", "U+00D4", "U+00D5",
      "U+00D6", "U+00D8", "U+00D9", "U+00DA", "U+00DB", "U+00DC", "U+00DD",
      "U+00DE", "U+0100", "U+0102", "U+0104", "U+0106", "U+0108", "U+010A",
      "U+010C", "U+010E", "U+0110", "U+0112", "U+0114", "U+0116", "U+0118",
      "U+011A", "U+011C", "U+011E", "U+0120", "U+0122", "U+0124", "U+0126",
      "U+0128", "U+012A", "U+012C", "U+012E", "U+0132", "U+0134", "U+0136",
      "U+0139", "U+013B", "U+013D", "U+013F", "U+0141", "U+0143", "U+0145",
      "U+0147", "U+014A", "U+014C", "U+014E", "U+0150", "U+0152", "U+0154",
      "U+0156", "U+0158", "U+015A", "U+015C", "U+015E", "U+0160", "U+0162",
      "U+0164", "U+0166", "U+0168", "U+016A", "U+016C", "U+016E", "U+0170",
      "U+0172", "U+0174", "U+0176", "U+0178", "U+0179", "U+017B", "U+017D",
      "U+0181", "U+0182", "U+0184", "U+0186", "U+0187", "U+0189", "U+018A",
      "U+018B", "U+018E", "U+018F", "U+0190", "U+0191", "U+0193", "U+0194",
      "U+0196", "U+0197", "U+0198", "U+019C", "U+019D", "U+019F", "U+01A0",
      "U+01A2", "U+01A4", "U+01A6", "U+01A7", "U+01A9", "U+01AC", "U+01AE",
      "U+01AF", "U+01B1", "U+01B2", "U+01B3", "U+01B5", "U+01B7", "U+01B8",
      "U+01BC", "U+01C4", "U+01C5", "U+01C7", "U+01C8", "U+01CA", "U+01CB",
      "U+01CD", "U+01CF", "U+01D1", "U+01D3", "U+01D5", "U+01D7", "U+01D9",
      "U+01DB", "U+01DE", "U+01E0", "U+01E2", "U+01E4", "U+01E6", "U+01E8",
      "U+01EA", "U+01EC", "U+01EE", "U+01F1", "U+01F2", "U+01F4", "U+01F6",
      "U+01F7", "U+01F8", "U+01FA", "U+01FC", "U+01FE", "U+0200", "U+0202",
      "U+0204", "U+0206", "U+0208", "U+020A", "U+020C", "U+020E", "U+0210",
      "U+0212", "U+0214", "U+0216", "U+0218", "U+021A", "U+021C", "U+021E",
      "U+0220", "U+0222", "U+0224", "U+0226", "U+0228", "U+022A", "U+022C",
      "U+022E", "U+0230", "U+0232", "U+023A", "U+023B", "U+023D", "U+023E",
      "U+0241", "U+0243", "U+0244", "U+0245", "U+0246", "U+0248", "U+024A",
      "U+024C", "U+024E", "U+0370", "U+0372", "U+0376", "U+037F", "U+0386",
      "U+0388", "U+0389", "U+038A", "U+038C", "U+038E", "U+038F", "U+0391",
      "U+0392", "U+0393", "U+0394", "U+0395", "U+0396", "U+0397", "U+0398",
      "U+0399", "U+039A", "U+039B", "U+039C", "U+039D", "U+039E", "U+039F",
      "U+03A0", "U+03A1", "U+03A3", "U+03A4", "U+03A5", "U+03A6", "U+03A7",
      "U+03A8", "U+03A9", "U+03AA", "U+03AB", "U+03CF", "U+03D8", "U+03DA",
      "U+03DC", "U+03DE", "U+03E0", "U+03E2", "U+03E4", "U+03E6", "U+03E8",
      "U+03EA", "U+03EC", "U+03EE", "U+03F4", "U+03F7", "U+03F9", "U+03FA",
      "U+03FD", "U+03FE", "U+03FF", "U+0400", "U+0401", "U+0402", "U+0403",
      "U+0404", "U+0405", "U+0406", "U+0407", "U+0408", "U+0409", "U+040A",
      "U+040B", "U+040C", "U+040D", "U+040E", "U+040F", "U+0410", "U+0411",
      "U+0412", "U+0413", "U+0414", "U+0415", "U+0416", "U+0417", "U+0418",
      "U+0419", "U+041A", "U+041B", "U+041C", "U+041D", "U+041E", "U+041F",
      "U+0420", "U+0421", "U+0422", "U+0423", "U+0424", "U+0425", "U+0426",
      "U+0427", "U+0428", "U+0429", "U+042A", "U+042B", "U+042C", "U+042D",
      "U+042E", "U+042F", "U+0460", "U+0462", "U+0464", "U+0466", "U+0468",
      "U+046A", "U+046C", "U+046E", "U+0470", "U+0472", "U+0474", "U+0476",
      "U+0478", "U+047A", "U+047C", "U+047E", "U+0480", "U+048A", "U+048C",
      "U+048E", "U+0490", "U+0492", "U+0494", "U+0496", "U+0498", "U+049A",
      "U+049C", "U+049E", "U+04A0", "U+04A2", "U+04A4", "U+04A6", "U+04A8",
      "U+04AA", "U+04AC", "U+04AE", "U+04B0", "U+04B2", "U+04B4", "U+04B6",
      "U+04B8", "U+04BA", "U+04BC", "U+04BE", "U+04C0", "U+04C1", "U+04C3",
      "U+04C5", "U+04C7", "U+04C9", "U+04CB", "U+04CD", "U+04D0", "U+04D2",
      "U+04D4", "U+04D6", "U+04D8", "U+04DA", "U+04DC", "U+04DE", "U+04E0",
      "U+04E2", "U+04E4", "U+04E6", "U+04E8", "U+04EA", "U+04EC", "U+04EE",
      "U+04F0", "U+04F2", "U+04F4", "U+04F6", "U+04F8", "U+04FA", "U+04FC",
      "U+04FE", "U+0500", "U+0502", "U+0504", "U+0506", "U+0508", "U+050A",
      "U+050C", "U+050E", "U+0510", "U+0512", "U+0514", "U+0516", "U+0518",
      "U+051A", "U+051C", "U+051E", "U+0520", "U+0522", "U+0524", "U+0526",
      "U+0528", "U+052A", "U+052C", "U+052E", "U+0531", "U+0532", "U+0533",
      "U+0534", "U+0535", "U+0536", "U+0537", "U+0538", "U+0539", "U+053A",
      "U+053B", "U+053C", "U+053D", "U+053E", "U+053F", "U+0540", "U+0541",
      "U+0542", "U+0543", "U+0544", "U+0545", "U+0546", "U+0547", "U+0548",
      "U+0549", "U+054A", "U+054B", "U+054C", "U+054D", "U+054E", "U+054F",
      "U+0550", "U+0551", "U+0552", "U+0553", "U+0554", "U+0555", "U+0556",
      "U+10A0", "U+10A1", "U+10A2", "U+10A3", "U+10A4", "U+10A5", "U+10A6",
      "U+10A7", "U+10A8", "U+10A9", "U+10AA", "U+10AB", "U+10AC", "U+10AD",
      "U+10AE", "U+10AF", "U+10B0", "U+10B1", "U+10B2", "U+10B3", "U+10B4",
      "U+10B5", "U+10B6", "U+10B7", "U+10B8", "U+10B9", "U+10BA", "U+10BB",
      "U+10BC", "U+10BD", "U+10BE", "U+10BF", "U+10C0", "U+10C1", "U+10C2",
      "U+10C3", "U+10C4", "U+10C5", "U+10C7", "U+10CD", "U+13A0", "U+13A1",
      "U+13A2", "U+13A3", "U+13A4", "U+13A5", "U+13A6", "U+13A7", "U+13A8",
      "U+13A9", "U+13AA", "U+13AB", "U+13AC", "U+13AD", "U+13AE", "U+13AF",
      "U+13B0", "U+13B1", "U+13B2", "U+13B3", "U+13B4", "U+13B5", "U+13B6",
      "U+13B7", "U+13B8", "U+13B9", "U+13BA", "U+13BB", "U+13BC", "U+13BD",
      "U+13BE", "U+13BF", "U+13C0", "U+13C1", "U+13C2", "U+13C3", "U+13C4",
      "U+13C5", "U+13C6", "U+13C7", "U+13C8", "U+13C9", "U+13CA", "U+13CB",
      "U+13CC", "U+13CD", "U+13CE", "U+13CF", "U+13D0", "U+13D1", "U+13D2",
      "U+13D3", "U+13D4", "U+13D5", "U+13D6", "U+13D7", "U+13D8", "U+13D9",
      "U+13DA", "U+13DB", "U+13DC", "U+13DD", "U+13DE", "U+13DF", "U+13E0",
      "U+13E1", "U+13E2", "U+13E3", "U+13E4", "U+13E5", "U+13E6", "U+13E7",
      "U+13E8", "U+13E9", "U+13EA", "U+13EB", "U+13EC", "U+13ED", "U+13EE",
      "U+13EF", "U+13F0", "U+13F1", "U+13F2", "U+13F3", "U+13F4", "U+13F5",
      "U+1C90", "U+1C91", "U+1C92", "U+1C93", "U+1C94", "U+1C95", "U+1C96",
      "U+1C97", "U+1C98", "U+1C99", "U+1C9A", "U+1C9B", "U+1C9C", "U+1C9D",
      "U+1C9E", "U+1C9F", "U+1CA0", "U+1CA1", "U+1CA2", "U+1CA3", "U+1CA4",
      "U+1CA5", "U+1CA6", "U+1CA7", "U+1CA8", "U+1CA9", "U+1CAA", "U+1CAB",
      "U+1CAC", "U+1CAD", "U+1CAE", "U+1CAF", "U+1CB0", "U+1CB1", "U+1CB2",
      "U+1CB3", "U+1CB4", "U+1CB5", "U+1CB6", "U+1CB7", "U+1CB8", "U+1CB9",
      "U+1CBA", "U+1CBD", "U+1CBE", "U+1CBF", "U+1E00", "U+1E02", "U+1E04",
      "U+1E06", "U+1E08", "U+1E0A", "U+1E0C", "U+1E0E", "U+1E10", "U+1E12",
      "U+1E14", "U+1E16", "U+1E18", "U+1E1A", "U+1E1C", "U+1E1E", "U+1E20",
      "U+1E22", "U+1E24", "U+1E26", "U+1E28", "U+1E2A", "U+1E2C", "U+1E2E",
      "U+1E30", "U+1E32", "U+1E34", "U+1E36", "U+1E38", "U+1E3A", "U+1E3C",
      "U+1E3E", "U+1E40", "U+1E42", "U+1E44", "U+1E46", "U+1E48", "U+1E4A",
      "U+1E4C", "U+1E4E", "U+1E50", "U+1E52", "U+1E54", "U+1E56", "U+1E58",
      "U+1E5A", "U+1E5C", "U+1E5E", "U+1E60", "U+1E62", "U+1E64", "U+1E66",
      "U+1E68", "U+1E6A", "U+1E6C", "U+1E6E", "U+1E70", "U+1E72", "U+1E74",
      "U+1E76", "U+1E78", "U+1E7A", "U+1E7C", "U+1E7E", "U+1E80", "U+1E82",
      "U+1E84", "U+1E86", "U+1E88", "U+1E8A", "U+1E8C", "U+1E8E", "U+1E90",
      "U+1E92", "U+1E94", "U+1E9E", "U+1EA0", "U+1EA2", "U+1EA4", "U+1EA6",
      "U+1EA8", "U+1EAA", "U+1EAC", "U+1EAE", "U+1EB0", "U+1EB2", "U+1EB4",
      "U+1EB6", "U+1EB8", "U+1EBA", "U+1EBC", "U+1EBE", "U+1EC0", "U+1EC2",
      "U+1EC4", "U+1EC6", "U+1EC8", "U+1ECA", "U+1ECC", "U+1ECE", "U+1ED0",
      "U+1ED2", "U+1ED4", "U+1ED6", "U+1ED8", "U+1EDA", "U+1EDC", "U+1EDE",
      "U+1EE0", "U+1EE2", "U+1EE4", "U+1EE6", "U+1EE8", "U+1EEA", "U+1EEC",
      "U+1EEE", "U+1EF0", "U+1EF2", "U+1EF4", "U+1EF6", "U+1EF8", "U+1EFA",
      "U+1EFC", "U+1EFE", "U+1F08", "U+1F09", "U+1F0A", "U+1F0B", "U+1F0C",
      "U+1F0D", "U+1F0E", "U+1F0F", "U+1F18", "U+1F19", "U+1F1A", "U+1F1B",
      "U+1F1C", "U+1F1D", "U+1F28", "U+1F29", "U+1F2A", "U+1F2B", "U+1F2C",
      "U+1F2D", "U+1F2E", "U+1F2F", "U+1F38", "U+1F39", "U+1F3A", "U+1F3B",
      "U+1F3C", "U+1F3D", "U+1F3E", "U+1F3F", "U+1F48", "U+1F49", "U+1F4A",
      "U+1F4B", "U+1F4C", "U+1F4D", "U+1F59", "U+1F5B", "U+1F5D", "U+1F5F",
      "U+1F68", "U+1F69", "U+1F6A", "U+1F6B", "U+1F6C", "U+1F6D", "U+1F6E",
      "U+1F6F", "U+1F88", "U+1F89", "U+1F8A", "U+1F8B", "U+1F8C", "U+1F8D",
      "U+1F8E", "U+1F8F", "U+1F98", "U+1F99", "U+1F9A", "U+1F9B", "U+1F9C",
      "U+1F9D", "U+1F9E", "U+1F9F", "U+1FA8", "U+1FA9", "U+1FAA", "U+1FAB",
      "U+1FAC", "U+1FAD", "U+1FAE", "U+1FAF", "U+1FB8", "U+1FB9", "U+1FBA",
      "U+1FBB", "U+1FBC", "U+1FC8", "U+1FC9", "U+1FCA", "U+1FCB", "U+1FCC",
      "U+1FD8", "U+1FD9", "U+1FDA", "U+1FDB", "U+1FE8", "U+1FE9", "U+1FEA",
      "U+1FEB", "U+1FEC", "U+1FF8", "U+1FF9", "U+1FFA", "U+1FFB", "U+1FFC",
      "U+2126", "U+212A", "U+212B", "U+2132", "U+2160", "U+2161", "U+2162",
      "U+2163", "U+2164", "U+2165", "U+2166", "U+2167", "U+2168", "U+2169",
      "U+216A", "U+216B", "U+216C", "U+216D", "U+216E", "U+216F", "U+2183",
      "U+24B6", "U+24B7", "U+24B8", "U+24B9", "U+24BA", "U+24BB", "U+24BC",
      "U+24BD", "U+24BE", "U+24BF", "U+24C0", "U+24C1", "U+24C2", "U+24C3",
      "U+24C4", "U+24C5", "U+24C6", "U+24C7", "U+24C8", "U+24C9", "U+24CA",
      "U+24CB", "U+24CC", "U+24CD", "U+24CE", "U+24CF", "U+2C00", "U+2C01",
      "U+2C02", "U+2C03", "U+2C04", "U+2C05", "U+2C06", "U+2C07", "U+2C08",
      "U+2C09", "U+2C0A", "U+2C0B", "U+2C0C", "U+2C0D", "U+2C0E", "U+2C0F",
      "U+2C10", "U+2C11", "U+2C12", "U+2C13", "U+2C14", "U+2C15", "U+2C16",
      "U+2C17", "U+2C18", "U+2C19", "U+2C1A", "U+2C1B", "U+2C1C", "U+2C1D",
      "U+2C1E", "U+2C1F", "U+2C20", "U+2C21", "U+2C22", "U+2C23", "U+2C24",
      "U+2C25", "U+2C26", "U+2C27", "U+2C28", "U+2C29", "U+2C2A", "U+2C2B",
      "U+2C2C", "U+2C2D", "U+2C2E", "U+2C2F", "U+2C60", "U+2C62", "U+2C63",
      "U+2C64", "U+2C67", "U+2C69", "U+2C6B", "U+2C6D", "U+2C6E", "U+2C6F",
      "U+2C70", "U+2C72", "U+2C75", "U+2C7E", "U+2C7F", "U+2C80", "U+2C82",
      "U+2C84", "U+2C86", "U+2C88", "U+2C8A", "U+2C8C", "U+2C8E", "U+2C90",
      "U+2C92", "U+2C94", "U+2C96", "U+2C98", "U+2C9A", "U+2C9C", "U+2C9E",
      "U+2CA0", "U+2CA2", "U+2CA4", "U+2CA6", "U+2CA8", "U+2CAA", "U+2CAC",
      "U+2CAE", "U+2CB0", "U+2CB2", "U+2CB4", "U+2CB6", "U+2CB8", "U+2CBA",
      "U+2CBC", "U+2CBE", "U+2CC0", "U+2CC2", "U+2CC4", "U+2CC6", "U+2CC8",
      "U+2CCA", "U+2CCC", "U+2CCE", "U+2CD0", "U+2CD2", "U+2CD4", "U+2CD6",
      "U+2CD8", "U+2CDA", "U+2CDC", "U+2CDE", "U+2CE0", "U+2CE2", "U+2CEB",
      "U+2CED", "U+2CF2", "U+A640", "U+A642", "U+A644", "U+A646", "U+A648",
      "U+A64A", "U+A64C", "U+A64E", "U+A650", "U+A652", "U+A654", "U+A656",
      "U+A658", "U+A65A", "U+A65C", "U+A65E", "U+A660", "U+A662", "U+A664",
      "U+A666", "U+A668", "U+A66A", "U+A66C", "U+A680", "U+A682", "U+A684",
      "U+A686", "U+A688", "U+A68A", "U+A68C", "U+A68E", "U+A690", "U+A692",
      "U+A694", "U+A696", "U+A698", "U+A69A", "U+A722", "U+A724", "U+A726",
      "U+A728", "U+A72A", "U+A72C", "U+A72E", "U+A732", "U+A734", "U+A736",
      "U+A738", "U+A73A", "U+A73C", "U+A73E", "U+A740", "U+A742", "U+A744",
      "U+A746", "U+A748", "U+A74A", "U+A74C", "U+A74E", "U+A750", "U+A752",
      "U+A754", "U+A756", "U+A758", "U+A75A", "U+A75C", "U+A75E", "U+A760",
      "U+A762", "U+A764", "U+A766", "U+A768", "U+A76A", "U+A76C", "U+A76E",
      "U+A779", "U+A77B", "U+A77D", "U+A77E", "U+A780", "U+A782", "U+A784",
      "U+A786", "U+A78B", "U+A78D", "U+A790", "U+A792", "U+A796", "U+A798",
      "U+A79A", "U+A79C", "U+A79E", "U+A7A0", "U+A7A2", "U+A7A4", "U+A7A6",
      "U+A7A8", "U+A7AA", "U+A7AB", "U+A7AC", "U+A7AD", "U+A7AE", "U+A7B0",
      "U+A7B1", "U+A7B2", "U+A7B3", "U+A7B4", "U+A7B6", "U+A7B8", "U+A7BA",
      "U+A7BC", "U+A7BE", "U+A7C0", "U+A7C2", "U+A7C4", "U+A7C5", "U+A7C6",
      "U+A7C7", "U+A7C9", "U+A7D0", "U+A7D6", "U+A7D8", "U+A7F5", "U+FF21",
      "U+FF22", "U+FF23", "U+FF24", "U+FF25", "U+FF26", "U+FF27", "U+FF28",
      "U+FF29", "U+FF2A", "U+FF2B", "U+FF2C", "U+FF2D", "U+FF2E", "U+FF2F",
      "U+FF30", "U+FF31", "U+FF32", "U+FF33", "U+FF34", "U+FF35", "U+FF36",
      "U+FF37", "U+FF38", "U+FF39", "U+FF3A", "U+10400", "U+10401", "U+10402",
      "U+10403", "U+10404", "U+10405", "U+10406", "U+10407", "U+10408",
      "U+10409", "U+1040A", "U+1040B", "U+1040C", "U+1040D", "U+1040E",
      "U+1040F", "U+10410", "U+10411", "U+10412", "U+10413", "U+10414",
      "U+10415", "U+10416", "U+10417", "U+10418", "U+10419", "U+1041A",
      "U+1041B", "U+1041C", "U+1041D", "U+1041E", "U+1041F", "U+10420",
      "U+10421", "U+10422", "U+10423", "U+10424", "U+10425", "U+10426",
      "U+10427", "U+104B0", "U+104B1", "U+104B2", "U+104B3", "U+104B4",
      "U+104B5", "U+104B6", "U+104B7", "U+104B8", "U+104B9", "U+104BA",
      "U+104BB", "U+104BC", "U+104BD", "U+104BE", "U+104BF", "U+104C0",
      "U+104C1", "U+104C2", "U+104C3", "U+104C4", "U+104C5", "U+104C6",
      "U+104C7", "U+104C8", "U+104C9", "U+104CA", "U+104CB", "U+104CC",
      "U+104CD", "U+104CE", "U+104CF", "U+104D0", "U+104D1", "U+104D2",
      "U+104D3", "U+10570", "U+10571", "U+10572", "U+10573", "U+10574",
      "U+10575", "U+10576", "U+10577", "U+10578", "U+10579", "U+1057A",
      "U+1057C", "U+1057D", "U+1057E", "U+1057F", "U+10580", "U+10581",
      "U+10582", "U+10583", "U+10584", "U+10585", "U+10586", "U+10587",
      "U+10588", "U+10589", "U+1058A", "U+1058C", "U+1058D", "U+1058E",
      "U+1058F", "U+10590", "U+10591", "U+10592", "U+10594", "U+10595",
      "U+10C80", "U+10C81", "U+10C82", "U+10C83", "U+10C84", "U+10C85",
      "U+10C86", "U+10C87", "U+10C88", "U+10C89", "U+10C8A", "U+10C8B",
      "U+10C8C", "U+10C8D", "U+10C8E", "U+10C8F", "U+10C90", "U+10C91",
      "U+10C92", "U+10C93", "U+10C94", "U+10C95", "U+10C96", "U+10C97",
      "U+10C98", "U+10C99", "U+10C9A", "U+10C9B", "U+10C9C", "U+10C9D",
      "U+10C9E", "U+10C9F", "U+10CA0", "U+10CA1", "U+10CA2", "U+10CA3",
      "U+10CA4", "U+10CA5", "U+10CA6", "U+10CA7", "U+10CA8", "U+10CA9",
      "U+10CAA", "U+10CAB", "U+10CAC", "U+10CAD", "U+10CAE", "U+10CAF",
      "U+10CB0", "U+10CB1", "U+10CB2", "U+118A0", "U+118A1", "U+118A2",
      "U+118A3", "U+118A4", "U+118A5", "U+118A6", "U+118A7", "U+118A8",
      "U+118A9", "U+118AA", "U+118AB", "U+118AC", "U+118AD", "U+118AE",
      "U+118AF", "U+118B0", "U+118B1", "U+118B2", "U+118B3", "U+118B4",
      "U+118B5", "U+118B6", "U+118B7", "U+118B8", "U+118B9", "U+118BA",
      "U+118BB", "U+118BC", "U+118BD", "U+118BE", "U+118BF", "U+16E40",
      "U+16E41", "U+16E42", "U+16E43", "U+16E44", "U+16E45", "U+16E46",
      "U+16E47", "U+16E48", "U+16E49", "U+16E4A", "U+16E4B", "U+16E4C",
      "U+16E4D", "U+16E4E", "U+16E4F", "U+16E50", "U+16E51", "U+16E52",
      "U+16E53", "U+16E54", "U+16E55", "U+16E56", "U+16E57", "U+16E58",
      "U+16E59", "U+16E5A", "U+16E5B", "U+16E5C", "U+16E5D", "U+16E5E",
      "U+16E5F", "U+1E900", "U+1E901", "U+1E902", "U+1E903", "U+1E904",
      "U+1E905", "U+1E906", "U+1E907", "U+1E908", "U+1E909", "U+1E90A",
      "U+1E90B", "U+1E90C", "U+1E90D", "U+1E90E", "U+1E90F", "U+1E910",
      "U+1E911", "U+1E912", "U+1E913", "U+1E914", "U+1E915", "U+1E916",
      "U+1E917", "U+1E918", "U+1E919", "U+1E91A", "U+1E91B", "U+1E91C",
      "U+1E91D", "U+1E91E", "U+1E91F", "U+1E920", "U+1E921" >>
LowerChars ==
    <<
      "a", "b", "c", "d", "e", "f", "g", "h", "i", "j", "k", "l", "m", "n",
      "o", "p", "q", "r", "s", "t", "u", "v", "w", "x", "y", "z", "U+00E0",
      "U+00E1", "U+00E2", "U+00E3", "U+00E4", "U+00E5", "U+00E6", "U+00E7",
      "U+00E8", "U+00E9", "U+00EA", "U+00EB", "U+00EC", "U+00ED", "U+00EE",
      "U+00EF", "U+00F0", "U+00F1", "U+00F2", "U+00F3", "U+00F4", "U+00F5",
      "U+00F6", "U+00F8", "U+00F9", "U+00FA", "U+00FB", "U+00FC", "U+00FD",
      "U+00FE", "U+0101", "U+0103", "U+0105", "U+0107", "U+0109", "U+010B",
      "U+010D", "U+010F", "U+0111", "U+0113", "U+0115", "U+0117", "U+0119",
      "U+011B", "U+011D", "U+011F", "U+0121", "U+0123", "U+0125", "U+0127",
      "U+0129", "U+012B", "U+012D", "U+012F", "U+0133", "U+0135", "U+0137",
      "U+013A", "U+013C", "U+013E", "U+0140", "U+0142", "U+0144", "U+0146",
      "U+0148", "U+014B", "U+014D", "U+014F", "U+0151", "U+0153", "U+0155",
      "U+0157", "U+0159", "U+015B", "U+015D", "U+015F", "U+0161", "U+0163",
      "U+0165", "U+0167", "U+0169", "U+016B", "U+016D", "U+016F", "U+0171",
      "U+0173", "U+0175", "U+0177", "U+00FF", "U+017A", "U+017C", "U+017E",
      "U+0253", "U+0183", "U+0185", "U+0254", "U+0188", "U+0256", "U+0257",
      "U+018C", "U+01DD", "U+0259", "U+025B", "U+0192", "U+0260", "U+0263",
      "U+0269", "U+0268", "U+0199", "U+026F", "U+0272", "U+0275", "U+01A1",
      "U+01A3", "U+01A5", "U+0280", "U+01A8", "U+0283", "U+01AD", "U+0288",
      "U+01B0", "U+028A", "U+028B", "U+01B4", "U+01B6", "U+0292", "U+01B9",
      "U+01BD", "U+01C6", "U+01C6", "U+01C9", "U+01C9", "U+01CC", "U+01CC",
      "U+01CE", "U+01D0", "U+01D2", "U+01D4", "U+01D6", "U+01D8", "U+01DA",
      "U+01DC", "U+01DF", "U+01E1", "U+01E3", "U+01E5", "U+01E7", "U+01E9",
      "U+01EB", "U+01ED", "U+01EF", "U+01F3", "U+01F3", "U+01F5", "U+0195",
      "U+01BF", "U+01F9", "U+01FB", "U+01FD", "U+01FF", "U+0201", "U+0203",
      "U+0205", "U+0207", "U+0209", "U+020B", "U+020D", "U+020F", "U+0211",
      "U+0213", "U+0215", "U+0217", "U+0219", "U+021B", "U+021D", "U+021F",
      "U+019E", "U+0223", "U+0225", "U+0227", "U+0229", "U+022B", "U+022D",
      "U+022F", "U+0231", "U+0233", "U+2C65", "U+023C", "U+019A", "U+2C66",
      "U+0242", "U+0180", "U+0289", "U+028C", "U+0247", "U+0249", "U+024B",
      "U+024D", "U+024F", "U+0371", "U+0373", "U+0377", "U+03F3", "U+03AC",
      "U+03AD", "U+03AE", "U+03AF", "U+03CC", "U+03CD", "U+03CE", "U+03B1",
      "U+03B2", "U+03B3", "U+03B4", "U+03B5", "U+03B6", "U+03B7", "U+03B8",
      "U+03B9", "U+03BA", "U+03BB", "U+03BC", "U+03BD", "U+03BE", "U+03BF",
      "U+03C0", "U+03C1", "U+03C3", "U+03C4", "U+03C5", "U+03C6", "U+03C7",
      "U+03C8", "U+03C9", "U+03CA", "U+03CB", "U+03D7", "U+03D9", "U+03DB",
      "U+03DD", "U+03DF", "U+03E1", "U+03E3", "U+03E5", "U+03E7", "U+03E9",
      "U+03EB", "U+03ED", "U+03EF", "U+03B8", "U+03F8", "U+03F2", "U+03FB",
      "U+037B", "U+037C", "U+037D", "U+0450", "U+0451", "U+0452", "U+0453",
      "U+0454", "U+0455", "U+0456", "U+0457", "U+0458", "U+0459", "U+045A",
      "U+045B", "U+045C", "U+045D", "U+045E", "U+045F", "U+0430", "U+0431",
      "U+0432", "U+0433", "U+0434", "U+0435", "U+0436", "U+0437", "U+0438",
      "U+0439", "U+043A", "U+043B", "U+043C", "U+043D", "U+043E", "U+043F",
      "U+0440", "U+0441", "U+0442", "U+0443", "U+0444", "U+0445", "U+0446",
      "U+0447", "U+0448", "U+0449", "U+044A", "U+044B", "U+044C", "U+044D",
      "U+044E", "U+044F", "U+0461", "U+0463", "U+0465", "U+0467", "U+0469",
      "U+046B", "U+046D", "U+046F", "U+0471", "U+0473", "U+0475", "U+0477",
      "U+0479", "U+047B", "U+047D", "U+047F", "U+0481", "U+048B", "U+048D",
      "U+048F", "U+0491", "U+0493", "U+0495", "U+0497", "U+0499", "U+049B",
      "U+049D", "U+049F", "U+04A1", "U+04A3", "U+04A5", "U+04A7", "U+04A9",
      "U+04AB", "U+04AD", "U+04AF", "U+04B1", "U+04B3", "U+04B5", "U+04B7",
      "U+04B9", "U+04BB", "U+04BD", "U+04BF", "U+04CF", "U+04C2", "U+04C4",
      "U+04C6", "U+04C8", "U+04CA", "U+04CC", "U+04CE", "U+04D1", "U+04D3",
      "U+04D5", "U+04D7", "U+04D9", "U+04DB", "U+04DD", "U+04DF", "U+04E1",
      "U+04E3", "U+04E5", "U+04E7", "U+04E9", "U+04EB", "U+04ED", "U+04EF",
      "U+04F1", "U+04F3", "U+04F5", "U+04F7", "U+04F9", "U+04FB", "U+04FD",
      "U+04FF", "U+0501", "U+0503", "U+0505", "U+0507", "U+0509", "U+050B",
      "U+050D", "U+050F", "U+0511", "U+0513", "U+0515", "U+0517", "U+0519",
      "U+051B", "U+051D", "U+051F", "U+0521", "U+0523", "U+0525", "U+0527",
      "U+0529", "U+052B", "U+052D", "U+052F", "U+0561", "U+0562", "U+0563",
      "U+0564", "U+0565", "U+0566", "U+0567", "U+0568", "U+0569", "U+056A",
      "U+056B", "U+056C", "U+056D", "U+056E", "U+056F", "U+0570", "U+0571",
      "U+0572", "U+0573", "U+0574", "U+0575", "U+0576", "U+0577", "U+0578",
      "U+0579", "U+057A", "U+057B", "U+057C", "U+057D", "U+057E", "U+057F",
      "U+0580", "U+0581", "U+0582", "U+0583", "U+0584", "U+0585", "U+0586",
      "U+2D00", "U+2D01", "U+2D02", "U+2D03", "U+2D04", "U+2D05", "U+2D06",
      "U+2D07", "U+2D08", "U+2D09", "U+2D0A", "U+2D0B", "U+2D0C", "U+2D0D",
      "U+2D0E", "U+2D0F", "U+2D10", "U+2D11", "U+2D12", "U+2D13", "U+2D14",
      "U+2D15", "U+2D16", "U+2D17", "U+2D18", "U+2D19", "U+2D1A", "U+2D1B",
      "U+2D1C", "U+2D1D", "U+2D1E", "U+2D1F", "U+2D20", "U+2D21", "U+2D22",
      "U+2D23", "U+2D24", "U+2D25", "U+2D27", "U+2D2D", "U+AB70", "U+AB71",
      "U+AB72", "U+AB73", "U+AB74", "U+AB75", "U+AB76", "U+AB77", "U+AB78",
      "U+AB79", "U+AB7A", "U+AB7B", "U+AB7C", "U+AB7D", "U+AB7E", "U+AB7F",
      "U+AB80", "U+AB81", "U+AB82", "U+AB83", "U+AB84", "U+AB85", "U+AB86",
      "U+AB87", "U+AB88", "U+AB89", "U+AB8A", "U+AB8B", "U+AB8C", "U+AB8D",
      "U+AB8E", "U+AB8F", "U+AB90", "U+AB91", "U+AB92", "U+AB93", "U+AB94",
      "U+AB95", "U+AB96", "U+AB97", "U+AB98", "U+AB99", "U+AB9A", "U+AB9B",
      "U+AB9C", "U+AB9D", "U+AB9E", "U+AB9F", "U+ABA0", "U+ABA1", "U+ABA2",
      "U+ABA3", "U+ABA4", "U+ABA5", "U+ABA6", "U+ABA7", "U+ABA8", "U+ABA9",
      "U+ABAA", "U+ABAB", "U+ABAC", "U+ABAD", "U+ABAE", "U+ABAF", "U+ABB0",
      "U+ABB1", "U+ABB2", "U+ABB3", "U+ABB4", "U+ABB5", "U+ABB6", "U+ABB7",
      "U+ABB8", "U+ABB9", "U+ABBA", "U+ABBB", "U+ABBC", "U+ABBD", "U+ABBE",
      "U+ABBF", "U+13F8", "U+13F9", "U+13FA", "U+13FB", "U+13FC", "U+13FD",
      "U+10D0", "U+10D1", "U+10D2", "U+10D3", "U+10D4", "U+10D5", "U+10D6",
      "U+10D7", "U+10D8", "U+10D9", "U+10DA", "U+10DB", "U+10DC", "U+10DD",
      "U+10DE", "U+10DF", "U+10E0", "U+10E1", "U+10E2", "U+10E3", "U+10E4",
      "U+10E5", "U+10E6", "U+10E7", "U+10E8", "U+10E9", "U+10EA", "U+10EB",
      "U+10EC", "U+10ED", "U+10EE", "U+10EF", "U+10F0", "U+10F1", "U+10F2",
      "U+10F3", "U+10F4", "U+10F5", "U+10F6", "U+10F7", "U+10F8", "U+10F9",
      "U+10FA", "U+10FD", "U+10FE", "U+10FF", "U+1E01", "U+1E03", "U+1E05",
      "U+1E07", "U+1E09", "U+1E0B", "U+1E0D", "U+1E0F", "U+1E11", "U+1E13",
      "U+1E15", "U+1E17", "U+1E19", "U+1E1B", "U+1E1D", "U+1E1F", "U+1E21",
      "U+1E23", "U+1E25", "U+1E27", "U+1E29", "U+1E2B", "U+1E2D", "U+1E2F",
      "U+1E31", "U+1E33", "U+1E35", "U+1E37", "U+1E39", "U+1E3B", "U+1E3D",
      "U+1E3F", "U+1E41", "U+1E43", "U+1E45", "U+1E47", "U+1E49", "U+1E4B",
      "U+1E4D", "U+1E4F", "U+1E51", "U+1E53", "U+1E55", "U+1E57", "U+1E59",
      "U+1E5B", "U+1E5D", "U+1E5F", "U+1E61", "U+1E63", "U+1E65", "U+1E67",
      "U+1E69", "U+1E6B", "U+1E6D", "U+1E6F", "U+1E71", "U+1E73", "U+1E75",
      "U+1E77", "U+1E79", "U+1E7B", "U+1E7D", "U+1E7F", "U+1E81", "U+1E83",
      "U+1E85", "U+1E87", "U+1E89", "U+1E8B", "U+1E8D", "U+1E8F", "U+1E91",
      "U+1E93", "U+1E95", "U+00DF", "U+1EA1", "U+1EA3", "U+1EA5", "U+1EA7",
      "U+1EA9", "U+1EAB", "U+1EAD", "U+1EAF", "U+1EB1", "U+1EB3", "U+1EB5",
      "U+1EB7", "U+1EB9", "U+1EBB", "U+1EBD", "U+1EBF", "U+1EC1", "U+1EC3",
      "U+1EC5", "U+1EC7", "U+1EC9", "U+1ECB", "U+1ECD", "U+1ECF", "U+1ED1",
      "U+1ED3", "U+1ED5", "U+1ED7", "U+1ED9", "U+1EDB", "U+1EDD", "U+1EDF",
      "U+1EE1", "U+1EE3", "U+1EE5", "U+1EE7", "U+1EE9", "U+1EEB", "U+1EED",
      "U+1EEF", "U+1EF1", "U+1EF3", "U+1EF5", "U+1EF7", "U+1EF9", "U+1EFB",
      "U+1EFD", "U+1EFF", "U+1F00", "U+1F01", "U+1F02", "U+1F03", "U+1F04",
      "U+1F05", "U+1F06", "U+1F07", "U+1F10", "U+1F11", "U+1F12", "U+1F13",
      "U+1F14", "U+1F15", "U+1F20", "U+1F21", "U+1F22", "U+1F23", "U+1F24",
      "U+1F25", "U+1F26", "U+1F27", "U+1F30", "U+1F31", "U+1F32", "U+1F33",
      "U+1F34", "U+1F35", "U+1F36", "U+1F37", "U+1F40", "U+1F41", "U+1F42",
      "U+1F43", "U+1F44", "U+1F45", "U+1F51", "U+1F53", "U+1F55", "U+1F57",
      "U+1F60", "U+1F61", "U+1F62", "U+1F63", "U+1F64", "U+1F65", "U+1F66",
      "U+1F67", "U+1F80", "U+1F81", "U+1F82", "U+1F83", "U+1F84", "U+1F85",
      "U+1F86", "U+1F87", "U+1F90", "U+1F91", "U+1F92", "U+1F93", "U+1F94",
      "U+1F95", "U+1F96", "U+1F97", "U+1FA0", "U+1FA1", "U+1FA2", "U+1FA3",
      "U+1FA4", "U+1FA5", "U+1FA6", "U+1FA7", "U+1FB0", "U+1FB1", "U+1F70",
      "U+1F71", "U+1FB3", "U+1F72", "U+1F73", "U+1F74", "U+1F75", "U+1FC3",
      "U+1FD0", "U+1FD1", "U+1F76", "U+1F77", "U+1FE0", "U+1FE1", "U+1F7A",
      "U+1F7B", "U+1FE5", "U+1F78", "U+1F79", "U+1F7C", "U+1F7D", "U+1FF3",
      "U+03C9", "k", "U+00E5", "U+214E", "U+2170", "U+2171", "U+2172",
      "U+2173", "U+2174", "U+2175", "U+2176", "U+2177", "U+2178", "U+2179",
      "U+217A", "U+217B", "U+217C", "U+217D", "U+217E", "U+217F", "U+2184",
      "U+24D0", "U+24D1", "U+24D2", "U+24D3", "U+24D4", "U+24D5", "U+24D6",
      "U+24D7", "U+24D8", "U+24D9", "U+24DA", "U+24DB", "U+24DC", "U+24DD",
      "U+24DE", "U+24DF", "U+24E0", "U+24E1", "U+24E2", "U+24E3", "U+24E4",
      "U+24E5", "U+24E6", "U+24E7", "U+24E8", "U+24E9", "U+2C30", "U+2C31",
      "U+2C32", "U+2C33", "U+2C34", "U+2C35", "U+2C36", "U+2C37", "U+2C38",
      "U+2C39", "U+2C3A", "U+2C3B", "U+2C3C", "U+2C3D", "U+2C3E", "U+2C3F",
      "U+2C40", "U+2C41", "U+2C42", "U+2C43", "U+2C44", "U+2C45", "U+2C46",
      "U+2C47", "U+2C48", "U+2C49", "U+2C4A", "U+2C4B", "U+2C4C", "U+2C4D",
      "U+2C4E", "U+2C4F", "U+2C50", "U+2C51", "U+2C52", "U+2C53", "U+2C54",
      "U+2C55", "U+2C56", "U+2C57", "U+2C58", "U+2C59", "U+2C5A", "U+2C5B",
      "U+2C5C", "U+2C5D", "U+2C5E", "U+2C5F", "U+2C61", "U+026B", "U+1D7D",
      "U+027D", "U+2C68", "U+2C6A", "U+2C6C", "U+0251", "U+0271", "U+0250",
      "U+0252", "U+2C73", "U+2C76", "U+023F", "U+0240", "U+2C81", "U+2C83",
      "U+2C85", "U+2C87", "U+2C89", "U+2C8B", "U+2C8D", "U+2C8F", "U+2C91",
      "U+2C93", "U+2C95", "U+2C97", "U+2C99", "U+2C9B", "U+2C9D", "U+2C9F",
      "U+2CA1", "U+2CA3", "U+2CA5", "U+2CA7", "U+2CA9", "U+2CAB", "U+2CAD",
      "U+2CAF", "U+2CB1", "U+2CB3", "U+2CB5", "U+2CB7", "U+2CB9", "U+2CBB",
      "U+2CBD", "U+2CBF", "U+2CC1", "U+2CC3", "U+2CC5", "U+2CC7", "U+2CC9",
      "U+2CCB", "U+2CCD", "U+2CCF", "U+2CD1", "U+2CD3", "U+2CD5", "U+2CD7",
      "U+2CD9", "U+2CDB", "U+2CDD", "U+2CDF", "U+2CE1", "U+2CE3", "U+2CEC",
      "U+2CEE", "U+2CF3", "U+A641", "U+A643", "U+A645", "U+A647", "U+A649",
      "U+A64B", "U+A64D", "U+A64F", "U+A651", "U+A653", "U+A655", "U+A657",
      "U+A659", "U+A65B", "U+A65D", "U+A65F", "U+A661", "U+A663", "U+A665",
      "U+A667", "U+A669", "U+A66B", "U+A66D", "U+A681", "U+A683", "U+A685",
      "U+A687", "U+A689", "U+A68B", "U+A68D", "U+A68F", "U+A691", "U+A693",
      "U+A695", "U+A697", "U+A699", "U+A69B", "U+A723", "U+A725", "U+A727",
      "U+A729", "U+A72B", "U+A72D", "U+A72F", "U+A733", "U+A735", "U+A737",
      "U+A739", "U+A73B", "U+A73D", "U+A73F", "U+A741", "U+A743", "U+A745",
      "U+A747", "U+A749", "U+A74B", "U+A74D", "U+A74F", "U+A751", "U+A753",
      "U+A755", "U+A757", "U+A759", "U+A75B", "U+A75D", "U+A75F", "U+A761",
      "U+A763", "U+A765", "U+A767", "U+A769", "U+A76B", "U+A76D", "U+A76F",
      "U+A77A", "U+A77C", "U+1D79", "U+A77F", "U+A781", "U+A783", "U+A785",
      "U+A787", "U+A78C", "U+0265", "U+A791", "U+A793", "U+A797", "U+A799",
      "U+A79B", "U+A79D", "U+A79F", "U+A7A1", "U+A7A3", "U+A7A5", "U+A7A7",
      "U+A7A9", "U+0266", "U+025C", "U+0261", "U+026C", "U+026A", "U+029E",
      "U+0287", "U+029D", "U+AB53", "U+A7B5", "U+A7B7", "U+A7B9", "U+A7BB",
      "U+A7BD", "U+A7BF", "U+A7C1", "U+A7C3", "U+A794", "U+0282", "U+1D8E",
      "U+A7C8", "U+A7CA", "U+A7D1", "U+A7D7", "U+A7D9", "U+A7F6", "U+FF41",
      "U+FF42", "U+FF43", "U+FF44", "U+FF45", "U+FF46", "U+FF47", "U+FF48",
      "U+FF49", "U+FF4A", "U+FF4B", "U+FF4C", "U+FF4D", "U+FF4E", "U+FF4F",
      "U+FF50", "U+FF51", "U+FF52", "U+FF53", "U+FF54", "U+FF55", "U+FF56",
      "U+FF57", "U+FF58", "U+FF59", "U+FF5A", "U+10428", "U+10429", "U+1042A",
      "U+1042B", "U+1042C", "U+1042D", "U+1042E", "U+1042F", "U+10430",
      "U+10431", "U+10432", "U+10433", "U+10434", "U+10435", "U+10436",
      "U+10437", "U+10438", "U+10439", "U+1043A", "U+1043B", "U+1043C",
      "U+1043D", "U+1043E", "U+1043F", "U+10440", "U+10441", "U+10442",
      "U+10443", "U+10444", "U+10445", "U+10446", "U+10447", "U+10448",
      "U+10449", "U+1044A", "U+1044B", "U+1044C", "U+1044D", "U+1044E",
      "U+1044F", "U+104D8", "U+104D9", "U+104DA", "U+104DB", "U+104DC",
      "U+104DD", "U+104DE", "U+104DF", "U+104E0", "U+104E1", "U+104E2",
      "U+104E3", "U+104E4", "U+104E5", "U+104E6", "U+104E7", "U+104E8",
      "U+104E9", "U+104EA", "U+104EB", "U+104EC", "U+104ED", "U+104EE",
      "U+104EF", "U+104F0", "U+104F1", "U+104F2", "U+104F3", "U+104F4",
      "U+104F5", "U+104F6", "U+104F7", "U+104F8", "U+104F9", "U+104FA",
      "U+104FB", "U+10597", "U+10598", "U+10599", "U+1059A", "U+1059B",
      "U+1059C", "U+1059D", "U+1059E", "U+1059F", "U+105A0", "U+105A1",
      "U+105A3", "U+105A4", "U+105A5", "U+105A6", "U+105A7", "U+105A8",
      "U+105A9", "U+105AA", "U+105AB", "U+105AC", "U+105AD", "U+105AE",
      "U+105AF", "U+105B0", "U+105B1", "U+105B3", "U+105B4", "U+105B5",
      "U+105B6", "U+105B7", "U+105B8", "U+105B9", "U+105BB", "U+105BC",
      "U+10CC0", "U+10CC1", "U+10CC2", "U+10CC3", "U+10CC4", "U+10CC5",
      "U+10CC6", "U+10CC7", "U+10CC8", "U+10CC9", "U+10CCA", "U+10CCB",
      "U+10CCC", "U+10CCD", "U+10CCE", "U+10CCF", "U+10CD0", "U+10CD1",
      "U+10CD2", "U+10CD3", "U+10CD4", "U+10CD5", "U+10CD6", "U+10CD7",
      "U+10CD8", "U+10CD9", "U+10CDA", "U+10CDB", "U+10CDC", "U+10CDD",
      "U+10CDE", "U+10CDF", "U+10CE0", "U+10CE1", "U+10CE2", "U+10CE3",
      "U+10CE4", "U+10CE5", "U+10CE6", "U+10CE7", "U+10CE8", "U+10CE9",
      "U+10CEA", "U+10CEB", "U+10CEC", "U+10CED", "U+10CEE", "U+10CEF",
      "U+10CF0", "U+10CF1", "U+10CF2", "U+118C0", "U+118C1", "U+118C2",
      "U+118C3", "U+118C4", "U+118C5", "U+118C6", "U+118C7", "U+118C8",
      "U+118C9", "U+118CA", "U+118CB", "U+118CC", "U+118CD", "U+118CE",
      "U+118CF", "U+118D0", "U+118D1", "U+118D2", "U+118D3", "U+118D4",
      "U+118D5", "U+118D6", "U+118D7", "U+118D8", "U+118D9", "U+118DA",
      "U+118DB", "U+118DC", "U+118DD", "U+118DE", "U+118DF", "U+16E60",
      "U+16E61", "U+16E62", "U+16E63", "U+16E64", "U+16E65", "U+16E66",
      "U+16E67", "U+16E68", "U+16E69", "U+16E6A", "U+16E6B", "U+16E6C",
      "U+16E6D", "U+16E6E", "U+16E6F", "U+16E70", "U+16E71", "U+16E72",
      "U+16E73", "U+16E74", "U+16E75", "U+16E76", "U+16E77", "U+16E78",
      "U+16E79", "U+16E7A", "U+16E7B", "U+16E7C", "U+16E7D", "U+16E7E",
      "U+16E7F", "U+1E922", "U+1E923", "U+1E924", "U+1E925", "U+1E926",
      "U+1E927", "U+1E928", "U+1E929", "U+1E92A", "U+1E92B", "U+1E92C",
      "U+1E92D", "U+1E92E", "U+1E92F", "U+1E930", "U+1E931", "U+1E932",
      "U+1E933", "U+1E934", "U+1E935", "U+1E936", "U+1E937", "U+1E938",
      "U+1E939", "U+1E93A", "U+1E93B", "U+1E93C", "U+1E93D", "U+1E93E",
      "U+1E93F", "U+1E940", "U+1E941", "U+1E942", "U+1E943" >>

\* c.lower() for a text of the one character c; U+0130 is the one character
\* whose lower-case form is two characters
LowerChar(c) ==
    IF c = "U+0130" THEN <<"i", "U+0307">>
    ELSE IF \E i \in 1..Len(UpperChars) : UpperChars[i] = c
    THEN <<LowerChars[CHOOSE i \in 1..Len(UpperChars) : UpperChars[i] = c]>>
    ELSE <<c>>

\* Code points of the cased characters that are not case-ignorable, and of
\* the case-ignorable characters (Unicode 14.0): str.lower() reads them
\* around a capital sigma.
CasedRanges ==
    <<
      <<65, 90>>, <<97, 122>>, <<170, 170>>, <<181, 181>>, <<186, 186>>,
      <<192, 214>>, <<216, 246>>, <<248, 442>>, <<444, 447>>, <<452, 659>>,
      <<661, 687>>, <<880, 883>>, <<886, 887>>, <<891, 893>>, <<895, 895>>,
      <<902, 902>>, <<904, 906>>, <<908, 908>>, <<910, 929>>, <<931, 1013>>,
      <<1015, 1153>>, <<1162, 1327>>, <<1329, 1366>>, <<1376, 1416>>,
      <<4256, 4293>>, <<4295, 4295>>, <<4301, 4301>>, <<4304, 4346>>,
      <<4349, 4351>>, <<5024, 5109>>, <<5112, 5117>>, <<7296, 7304>>,
      <<7312, 7354>>, <<7357, 7359>>, <<7424, 7467>>, <<7531, 7543>>,
      <<7545, 7578>>, <<7680, 7957>>, <<7960, 7965>>, <<7968, 8005>>,
      <<8008, 8013>>, <<8016, 8023>>, <<8025, 8025>>, <<8027, 8027>>,
      <<8029, 8029>>, <<8031, 8061>>, <<8064, 8116>>, <<8118, 8124>>,
      <<8126, 8126>>, <<8130, 8132>>, <<8134, 8140>>, <<8144, 8147>>,
      <<8150, 8155>>, <<8160, 8172>>, <<8178, 8180>>, <<8182, 8188>>,
      <<8450, 8450>>, <<8455, 8455>>, <<8458, 8467>>, <<8469, 8469>>,
      <<8473, 8477>>, <<8484, 8484>>, <<8486, 8486>>, <<8488, 8488>>,
      <<8490, 8493>>, <<8495, 8500>>, <<8505, 8505>>, <<8508, 8511>>,
      <<8517, 8521>>, <<8526, 8526>>, <<8544, 8575>>, <<8579, 8580>>,
      <<9398, 9449>>, <<11264, 11387>>, <<11390, 11492>>, <<11499, 11502>>,
      <<11506, 11507>>, <<11520, 11557>>, <<11559, 11559>>, <<11565, 11565>>,
      <<42560, 42605>>, <<42624, 42651>>, <<42786, 42863>>, <<42865, 42887>>,
      <<42891, 42894>>, <<42896, 42954>>, <<42960, 42961>>, <<42963, 42963>>,
      <<42965, 42969>>, <<42997, 42998>>, <<43002, 43002>>, <<43824, 43866>>,
      <<43872, 43880>>, <<43888, 43967>>, <<64256, 64262>>, <<64275, 64279>>,
      <<65313, 65338>>, <<65345, 65370>>, <<66560, 66639>>, <<66736, 66771>>,
      <<66776, 66811>>, <<66928, 66938>>, <<66940, 66954>>, <<66956, 66962>>,
      <<66964, 66965>>, <<66967, 66977>>, <<66979, 66993>>, <<66995, 67001>>,
      <<67003, 67004>>, <<68736, 68786>>, <<68800, 68850>>, <<71840, 71903>>,
      <<93760, 93823>>, <<119808, 119892>>, <<119894, 119964>>,
      <<119966, 119967>>, <<119970, 119970>>, <<119973, 119974>>,
      <<119977, 119980>>, <<119982, 119993>>, <<119995, 119995>>,
      <<119997, 120003>>, <<120005, 120069>>, <<120071, 120074>>,
      <<120077, 120084>>, <<120086, 120092>>, <<120094, 120121>>,
      <<120123, 120126>>, <<120128, 120132>>, <<120134, 120134>>,
      <<120138, 120144>>, <<120146, 120485>>, <<120488, 120512>>,
      <<120514, 120538>>, <<120540, 120570>>, <<120572, 120596>>,
      <<120598, 120628>>, <<120630, 120654>>, <<120656, 120686>>,
      <<120688, 120712>>, <<120714, 120744>>, <<120746, 120770>>,
      <<120772, 120779>>, <<122624, 122633>>, <<122635, 122654>>,
      <<125184, 125251>>, <<127280, 127305>>, <<127312, 127337>>,
      <<127344, 127369>> >>
CaseIgnorableRanges ==
    <<
      <<39, 39>>, <<46, 46>>, <<58, 58>>, <<94, 94>>, <<96, 96>>,
      <<168, 168>>, <<173, 173>>, <<175, 175>>, <<180, 180>>, <<183, 184>>,
      <<688, 879>>, <<884, 885>>, <<890, 890>>, <<900, 901>>, <<903, 903>>,
      <<1155, 1161>>, <<1369, 1369>>, <<1375, 1375>>, <<1425, 1469>>,
      <<1471, 1471>>, <<1473, 1474>>, <<1476, 1477>>, <<1479, 1479>>,
      <<1524, 1524>>, <<1536, 1541>>, <<1552, 1562>>, <<1564, 1564>>,
      <<1600, 1600>>, <<1611, 1631>>, <<1648, 1648>>, <<1750, 1757>>,
      <<1759, 1768>>, <<1770, 1773>>, <<1807, 1807>>, <<1809, 1809>>,
      <<1840, 1866>>, <<1958, 1968>>, <<2027, 2037>>, <<2042, 2042>>,
      <<2045, 2045>>, <<2070, 2093>>, <<2137, 2139>>, <<2184, 2184>>,
      <<2192, 2193>>, <<2200, 2207>>, <<2249, 2306>>, <<2362, 2362>>,
      <<2364, 2364>>, <<2369, 2376>>, <<2381, 2381>>, <<2385, 2391>>,
      <<2402, 2403>>, <<2417, 2417>>, <<2433, 2433>>, <<2492, 2492>>,
      <<2497, 2500>>, <<2509, 2509>>, <<2530, 2531>>, <<2558, 2558>>,
      <<2561, 2562>>, <<2620, 2620>>, <<2625, 2626>>, <<2631, 2632>>,
      <<2635, 2637>>, <<2641, 2641>>, <<2672, 2673>>, <<2677, 2677>>,
      <<2689, 2690>>, <<2748, 2748>>, <<2753, 2757>>, <<2759, 2760>>,
      <<2765, 2765>>, <<2786, 2787>>, <<2810, 2815>>, <<2817, 2817>>,
      <<2876, 2876>>, <<2879, 2879>>, <<2881, 2884>>, <<2893, 2893>>,
      <<2901, 2902>>, <<2914, 2915>>, <<2946, 2946>>, <<3008, 3008>>,
      <<3021, 3021>>, <<3072, 3072>>, <<3076, 3076>>, <<3132, 3132>>,
      <<3134, 3136>>, <<3142, 3144>>, <<3146, 3149>>, <<3157, 3158>>,
      <<3170, 3171>>, <<3201, 3201>>, <<3260, 3260>>, <<3263, 3263>>,
      <<3270, 3270>>, <<3276, 3277>>, <<3298, 3299>>, <<3328, 3329>>,
      <<3387, 3388>>, <<3393, 3396>>, <<3405, 3405>>, <<3426, 3427>>,
      <<3457, 3457>>, <<3530, 3530>>, <<3538, 3540>>, <<3542, 3542>>,
      <<3633, 3633>>, <<3636, 3642>>, <<3654, 3662>>, <<3761, 3761>>,
      <<3764, 3772>>, <<3782, 3782>>, <<3784, 3789>>, <<3864, 3865>>,
      <<3893, 3893>>, <<3895, 3895>>, <<3897, 3897>>, <<3953, 3966>>,
      <<3968, 3972>>, <<3974, 3975>>, <<3981, 3991>>, <<3993, 4028>>,
      <<4038, 4038>>, <<4141, 4144>>, <<4146, 4151>>, <<4153, 4154>>,
      <<4157, 4158>>, <<4184, 4185>>, <<4190, 4192>>, <<4209, 4212>>,
      <<4226, 4226>>, <<4229, 4230>>, <<4237, 4237>>, <<4253, 4253>>,
      <<4348, 4348>>, <<4957, 4959>>, <<5906, 5908>>, <<5938, 5939>>,
      <<5970, 5971>>, <<6002, 6003>>, <<6068, 6069>>, <<6071, 6077>>,
      <<6086, 6086>>, <<6089, 6099>>, <<6103, 6103>>, <<6109, 6109>>,
      <<6155, 6159>>, <<6211, 6211>>, <<6277, 6278>>, <<6313, 6313>>,
      <<6432, 6434>>, <<6439, 6440>>, <<6450, 6450>>, <<6457, 6459>>,
      <<6679, 6680>>, <<6683, 6683>>, <<6742, 6742>>, <<6744, 6750>>,
      <<6752, 6752>>, <<6754, 6754>>, <<6757, 6764>>, <<6771, 6780>>,
      <<6783, 6783>>, <<6823, 6823>>, <<6832, 6862>>, <<6912, 6915>>,
      <<6964, 6964>>, <<6966, 6970>>, <<6972, 6972>>, <<6978, 6978>>,
      <<7019, 7027>>, <<7040, 7041>>, <<7074, 7077>>, <<7080, 7081>>,
      <<7083, 7085>>, <<7142, 7142>>, <<7144, 7145>>, <<7149, 7149>>,
      <<7151, 7153>>, <<7212, 7219>>, <<7222, 7223>>, <<7288, 7293>>,
      <<7376, 7378>>, <<7380, 7392>>, <<7394, 7400>>, <<7405, 7405>>,
      <<7412, 7412>>, <<7416, 7417>>, <<7468, 7530>>, <<7544, 7544>>,
      <<7579, 7679>>, <<8125, 8125>>, <<8127, 8129>>, <<8141, 8143>>,
      <<8157, 8159>>, <<8173, 8175>>, <<8189, 8190>>, <<8203, 8207>>,
      <<8216, 8217>>, <<8228, 8228>>, <<8231, 8231>>, <<8234, 8238>>,
      <<8288, 8292>>, <<8294, 8303>>, <<8305, 8305>>, <<8319, 8319>>,
      <<8336, 8348>>, <<8400, 8432>>, <<11388, 11389>>, <<11503, 11505>>,
      <<11631, 11631>>, <<11647, 11647>>, <<11744, 11775>>, <<11823, 11823>>,
      <<12293, 12293>>, <<12330, 12333>>, <<12337, 12341>>, <<12347, 12347>>,
      <<12441, 12446>>, <<12540, 12542>>, <<40981, 40981>>, <<42232, 42237>>,
      <<42508, 42508>>, <<42607, 42610>>, <<42612, 42621>>, <<42623, 42623>>,
      <<42652, 42655>>, <<42736, 42737>>, <<42752, 42785>>, <<42864, 42864>>,
      <<42888, 42890>>, <<42994, 42996>>, <<43000, 43001>>, <<43010, 43010>>,
      <<43014, 43014>>, <<43019, 43019>>, <<43045, 43046>>, <<43052, 43052>>,
      <<43204, 43205>>, <<43232, 43249>>, <<43263, 43263>>, <<43302, 43309>>,
      <<43335, 43345>>, <<43392, 43394>>, <<43443, 43443>>, <<43446, 43449>>,
      <<43452, 43453>>, <<43471, 43471>>, <<43493, 43494>>, <<43561, 43566>>,
      <<43569, 43570>>, <<43573, 43574>>, <<43587, 43587>>, <<43596, 43596>>,
      <<43632, 43632>>, <<43644, 43644>>, <<43696, 43696>>, <<43698, 43700>>,
      <<43703, 43704>>, <<43710, 43711>>, <<43713, 43713>>, <<43741, 43741>>,
      <<43756, 43757>>, <<43763, 43764>>, <<43766, 43766>>, <<43867, 43871>>,
      <<43881, 43883>>, <<44005, 44005>>, <<44008, 44008>>, <<44013, 44013>>,
      <<64286, 64286>>, <<64434, 64450>>, <<65024, 65039>>, <<65043, 65043>>,
      <<65056, 65071>>, <<65106, 65106>>, <<65109, 65109>>, <<65279, 65279>>,
      <<65287, 65287>>, <<65294, 65294>>, <<65306, 65306>>, <<65342, 65342>>,
      <<65344, 65344>>, <<65392, 65392>>, <<65438, 65439>>, <<65507, 65507>>,
      <<65529, 65531>>, <<66045, 66045>>, <<66272, 66272>>, <<66422, 66426>>,
      <<67456, 67461>>, <<67463, 67504>>, <<67506, 67514>>, <<68097, 68099>>,
      <<68101, 68102>>, <<68108, 68111>>, <<68152, 68154>>, <<68159, 68159>>,
      <<68325, 68326>>, <<68900, 68903>>, <<69291, 69292>>, <<69446, 69456>>,
      <<69506, 69509>>, <<69633, 69633>>, <<69688, 69702>>, <<69744, 69744>>,
      <<69747, 69748>>, <<69759, 69761>>, <<69811, 69814>>, <<69817, 69818>>,
      <<69821, 69821>>, <<69826, 69826>>, <<69837, 69837>>, <<69888, 69890>>,
      <<69927, 69931>>, <<69933, 69940>>, <<70003, 70003>>, <<70016, 70017>>,
      <<70070, 70078>>, <<70089, 70092>>, <<70095, 70095>>, <<70191, 70193>>,
      <<70196, 70196>>, <<70198, 70199>>, <<70206, 70206>>, <<70367, 70367>>,
      <<70371, 70378>>, <<70400, 70401>>, <<70459, 70460>>, <<70464, 70464>>,
      <<70502, 70508>>, <<70512, 70516>>, <<70712, 70719>>, <<70722, 70724>>,
      <<70726, 70726>>, <<70750, 70750>>, <<70835, 70840>>, <<70842, 70842>>,
      <<70847, 70848>>, <<70850, 70851>>, <<71090, 71093>>, <<71100, 71101>>,
      <<71103, 71104>>, <<71132, 71133>>, <<71219, 71226>>, <<71229, 71229>>,
      <<71231, 71232>>, <<71339, 71339>>, <<71341, 71341>>, <<71344, 71349>>,
      <<71351, 71351>>, <<71453, 71455>>, <<71458, 71461>>, <<71463, 71467>>,
      <<71727, 71735>>, <<71737, 71738>>, <<71995, 71996>>, <<71998, 71998>>,
      <<72003, 72003>>, <<72148, 72151>>, <<72154, 72155>>, <<72160, 72160>>,
      <<72193, 72202>>, <<72243, 72248>>, <<72251, 72254>>, <<72263, 72263>>,
      <<72273, 72278>>, <<72281, 72283>>, <<72330, 72342>>, <<72344, 72345>>,
      <<72752, 72758>>, <<72760, 72765>>, <<72767, 72767>>, <<72850, 72871>>,
      <<72874, 72880>>, <<72882, 72883>>, <<72885, 72886>>, <<73009, 73014>>,
      <<73018, 73018>>, <<73020, 73021>>, <<73023, 73029>>, <<73031, 73031>>,
      <<73104, 73105>>, <<73109, 73109>>, <<73111, 73111>>, <<73459, 73460>>,
      <<78896, 78904>>, <<92912, 92916>>, <<92976, 92982>>, <<92992, 92995>>,
      <<94031, 94031>>, <<94095, 94111>>, <<94176, 94177>>, <<94179, 94180>>,
      <<110576, 110579>>, <<110581, 110587>>, <<110589, 110590>>,
      <<113821, 113822>>, <<113824, 113827>>, <<118528, 118573>>,
      <<118576, 118598>>, <<119143, 119145>>, <<119155, 119170>>,
      <<119173, 119179>>, <<119210, 119213>>, <<119362, 119364>>,
      <<121344, 121398>>, <<121403, 121452>>, <<121461, 121461>>,
      <<121476, 121476>>, <<121499, 121503>>, <<121505, 121519>>,
      <<122880, 122886>>, <<122888, 122904>>, <<122907, 122913>>,
      <<122915, 122916>>, <<122918, 122922>>, <<123184, 123197>>,
      <<123566, 123566>>, <<123628, 123631>>, <<125136, 125142>>,
      <<125252, 125259>>, <<127995, 127999>>, <<917505, 917505>>,
      <<917536, 917631>>, <<917760, 917999>> >>

CasedChars == CharsIn(CasedRanges)
CaseIgnorable == CharsIn(CaseIgnorableRanges)

\* whether the capital sigma at text[i] ends a word: a cased character comes
\* before it and none after it, case-ignorable characters skipped
FinalSigma(text, i) ==
    LET before == {j \in 1..(i - 1) : text[j] \notin CaseIgnorable}
        after == {j \in (i + 1)..Len(text) : text[j] \notin CaseIgnorable}
    IN  /\ before # {}
        /\ text[CHOOSE j \in before : \A k \in before : k <= j] \in CasedChars
        /\ \/ after = {}
           \/ text[CHOOSE j \in after : \A k \in after : j <= k] \notin CasedChars

\* str.lower()
Lower(text) ==
    Flatten([i \in 1..Len(text) |->
                IF text[i] = "U+03A3"
                THEN IF FinalSigma(text, i) THEN <<"U+03C2">> ELSE <<"U+03C3">>
                ELSE LowerChar(text[i])])

\* the characters str.strip() removes (str.isspace)
Whitespace ==
    {
      "\t", "\n", "U+000B", "\f", "\r", "U+001C", "U+001D", "U+001E",
      "U+001F", " ", "U+0085", "U+00A0", "U+1680", "U+2000", "U+2001",
      "U+2002", "U+2003", "U+2004", "U+2005", "U+2006", "U+2007", "U+2008",
      "U+2009", "U+200A", "U+2028", "U+2029", "U+202F", "U+205F", "U+3000" }

RECURSIVE LStrip(_)
LStrip(text) ==
    IF text # <<>> /\ Head(text) \in Whitespace THEN LStrip(Tail(text))
    ELSE text

RECURSIVE RStrip(_)
RStrip(text) ==
    IF text # <<>> /\ text[Len(text)] \in Whitespace
    THEN RStrip(SubSeq(text, 1, Len(text) - 1))
    ELSE text

\* str.strip()
Strip(text) == RStrip(LStrip(text))

\* str.replace(old, new) for one-character old and new
Replace(text, old, new) ==
    [i \in 1..Len(text) |-> IF text[i] = old THEN new ELSE text[i]]

\* x or y, for two texts
Or(x, y) == IF x # <<>> THEN x ELSE y

\* whether UTF-8 cannot encode the text
Unencodable(text) == \E i \in 1..Len(text) : text[i] \in Surrogates

\* The texts a write of text leaves in the file when it stops short: the
\* first bytes of its UTF-8 encoding, fewer than all of them.
CutTexts(text) ==
    {SubSeq(text, 1, j) : j \in 0..(Len(text) - 1)}
      \cup UNION {{SubSeq(text, 1, j) \o <<PartChar(text[j + 1], k)>> :
                        k \in 1..(Utf8Len(text[j + 1]) - 1)} :
                    j \in 0..(Len(text) - 1)}

RECURSIVE SplitLines(_)
\* the lines of a text: every "\n" ends a line; what follows the last "\n",
\* when not empty, is a last line that has no end yet
SplitLines(text) ==
    IF text = <<>> THEN <<>>
    ELSE IF \E i \in 1..Len(text) : text[i] = "\n"
    THEN LET n == CHOOSE i \in 1..Len(text) :
                    /\ text[i] = "\n"
                    /\ \A j \in 1..(i - 1) : text[j] # "\n"
         IN  <<SubSeq(text, 1, n - 1)>>
                 \o SplitLines(SubSeq(text, n + 1, Len(text)))
    ELSE <<text>>

(***************************************************************************)
(* Python values as json.load returns them: None (also standing for a      *)
(* number or a boolean: not a container), str, list, dict.  A dict is the  *)
(* sequence of its items in insertion order.                               *)
(***************************************************************************)
PyNone == [t |-> "null"]
PyStr(s) == [t |-> "str", s |-> s]
PyList(xs) == [t |-> "list", xs |-> xs]
PyDict(items) == [t |-> "dict", items |-> items]
Item(k, v) == [k |-> k, v |-> v]

HasKey(items, k) == \E i \in 1..Len(items) : items[i].k = k

\* d[k] for a key the dict has
Lookup(items, k) ==
    items[CHOOSE i \in 1..Len(items) : items[i].k = k].v

\* d[k] = v: a new key goes last, a known key keeps its place
Store(items, k, v) ==
    IF HasKey(items, k)
    THEN [i \in 1..Len(items) |-> IF items[i].k = k THEN Item(k, v) ELSE items[i]]
    ELSE Append(items, Item(k, v))

\* the verdict of `x in container` for a text x: "yes", "no" or "TypeError"
InOp(x, c) ==
    CASE c.t = "list" -> IF \E i \in 1..Len(c.xs) : c.xs[i] = PyStr(x)
                         THEN "yes" ELSE "no"
      [] c.t = "str"  -> IF Contains(x, c.s) THEN "yes" ELSE "no"
      [] c.t = "dict" -> IF HasKey(c.items, x) THEN "yes" ELSE "no"
      [] OTHER        -> "TypeError"

(***************************************************************************)
(* The seen file holds JSON text, modelled as its sequence of tokens.      *)
(***************************************************************************)
LBrace == [k |-> "{"]
RBrace == [k |-> "}"]
LBrack == [k |-> "["]
RBrack == [k |-> "]"]
Colon == [k |-> ":"]
Comma == [k |-> ","]
NullTok == [k |-> "null"]
StrTok(s) == [k |-> "str", s |-> s]

RECURSIVE json_dumps(_)
RECURSIVE DumpList(_)
RECURSIVE DumpItems(_)
DumpList(xs) ==
    IF xs = <<>> THEN <<>>
    ELSE json_dumps(Head(xs))
           \o (IF Len(xs) > 1 THEN <<Comma>> ELSE <<>>) \o DumpList(Tail(xs))
DumpItems(items) ==
    IF items = <<>> THEN <<>>
    ELSE <<StrTok(Head(items).k), Colon>> \o json_dumps(Head(items).v)
           \o (IF Len(items) > 1 THEN <<Comma>> ELSE <<>>)
           \o DumpItems(Tail(items))
\* the text json.dump writes for a value
json_dumps(v) ==
    CASE v.t = "null" -> <<NullTok>>
      [] v.t = "str"  -> <<StrTok(v.s)>>
      [] v.t = "list" -> <<LBrack>> \o DumpList(v.xs) \o <<RBrack>>
      [] v.t = "dict" -> <<LBrace>> \o DumpItems(v.items) \o <<RBrace>>

\* the text json.dump writes for one character of a string (ensure_ascii is
\* False: only the quote, the backslash and the control characters change)
EscapeChar(c) ==
    IF c = "\"" THEN <<"\\", "\"">>
    ELSE IF c = "\\" THEN <<"\\", "\\">>
    ELSE IF c = "\n" THEN <<"\\", "n">>
    ELSE IF c = "\r" THEN <<"\\", "r">>
    ELSE IF c = "\t" THEN <<"\\", "t">>
    ELSE IF c = "\f" THEN <<"\\", "f">>
    ELSE IF c = "U+0008" THEN <<"\\", "b">>
    ELSE IF \E n \in 0..31 : c = Chr(n)
    THEN LET n == CHOOSE m \in 0..31 : c = Chr(m) IN
         <<"\\", "u", "0", "0">>
            \o Lower(<<Hex(n \div 16, 1), Hex(n % 16, 1)>>)
    ELSE <<c>>

\* the text of a token
TokText(tok) ==
    CASE tok.k = "str" ->
            <<"\"">> \o Flatten([i \in 1..Len(tok.s) |-> EscapeChar(tok.s[i])])
                \o <<"\"">>
      [] tok.k = "null" -> <<"n", "u", "l", "l">>
      [] OTHER -> <<tok.k>>

\* the beginning of a token's text, where a write stopped inside the token
CutTok(text) == [k |-> "cut", s |-> text]

\* The contents a write of the tokens leaves when it stops short: it stops
\* between two tokens or inside one.
Cuts(toks) ==
    {SubSeq(toks, 1, k) : k \in 0..(Len(toks) - 1)}
      \cup UNION {{SubSeq(toks, 1, k) \o <<CutTok(t)>> :
                        t \in CutTexts(TokText(toks[k + 1])) \ {<<>>}} :
                    k \in 0..(Len(toks) - 1)}

\* The place of the first string json.dump cannot write to the UTF-8 file
\* (a string with a lone surrogate), 0 when there is none.
FirstUnencodable(toks) ==
    LET bad == {i \in 1..Len(toks) : toks[i].k = "str" /\ Unencodable(toks[i].s)}
    IN  IF bad = {} THEN 0 ELSE CHOOSE i \in bad : \A j \in bad : i <= j

Failed == [ok |-> FALSE, v |-> PyNone, next |-> 0]
Parsed(v, next) == [ok |-> TRUE, v |-> v, next |-> next]
TokAt(toks, i) == IF i <= Len(toks) THEN toks[i] ELSE [k |-> "eof"]

RECURSIVE ParseValue(_, _)
RECURSIVE ParseElems(_, _, _)
RECURSIVE ParseItems(_, _, _)
\* the elements of a list after "[" or ",", up to "]"
ParseElems(toks, i, acc) ==
    LET r == ParseValue(toks, i) IN
    IF ~r.ok THEN Failed
    ELSE IF TokAt(toks, r.next) = RBrack
         THEN Parsed(PyList(Append(acc, r.v)), r.next + 1)
    ELSE IF TokAt(toks, r.next) = Comma
         THEN ParseElems(toks, r.next + 1, Append(acc, r.v))
    ELSE Failed
\* the items of an object after "{" or ",", up to "}"
ParseItems(toks, i, acc) ==
    IF TokAt(toks, i).k # "str" \/ TokAt(toks, i + 1) # Colon THEN Failed
    ELSE LET r == ParseValue(toks, i + 2) IN
         IF ~r.ok THEN Failed
         ELSE IF TokAt(toks, r.next) = RBrace
              THEN Parsed(PyDict(Store(acc, toks[i].s, r.v)), r.next + 1)
         ELSE IF TokAt(toks, r.next) = Comma
              THEN ParseItems(toks, r.next + 1, Store(acc, toks[i].s, r.v))
         ELSE Failed
\* one JSON value starting at token i
ParseValue(toks, i) ==
    LET tok == TokAt(toks, i) IN
    CASE tok.k = "null" -> Parsed(PyNone, i + 1)
      [] tok.k = "str"  -> Parsed(PyStr(tok.s), i + 1)
      [] tok.k = "["    -> IF TokAt(toks, i + 1) = RBrack
                           THEN Parsed(PyList(<<>>), i + 2)
                           ELSE ParseElems(toks, i + 1, <<>>)
      [] tok.k = "{"    -> IF TokAt(toks, i + 1) = RBrace
                           THEN Parsed(PyDict(<<>>), i + 2)
                           ELSE ParseItems(toks, i + 1, <<>>)
      [] OTHER          -> Failed

\* json.load: the value of a whole text, or a failure (JSONDecodeError)
json_loads(toks) ==
    LET r == ParseValue(toks, 1) IN
    IF r.ok /\ r.next = Len(toks) + 1 THEN r ELSE Failed

\* a file: whether it exists, and its content
NoFile == [exists |-> FALSE, data |-> <<>>]
File(data) == [exists |-> TRUE, data |-> data]

load_seen_empty(file) == PyDict(<<>>)
\* load_seen(path)
load_seen(file) ==
    IF ~file.exists THEN PyDict(<<>>)
    ELSE LET r == json_loads(file.data) IN
         IF r.ok THEN r.v ELSE PyDict(<<>>)

(***************************************************************************)
(* Configuration.                                                          *)
(***************************************************************************)
\* KEYWORDS as Python builds the list: "šutaj eštok" "eštok" is one literal
KEYWORDS ==
    << <<"m", "i", "n", "i", "s", "t", "e", "r", "s", "t", "v", "o", " ", "v", "n", "U+00FA", "t", "r", "a">>,
       <<"m", "i", "n", "i", "s", "t", "e", "r", " ", "v", "n", "U+00FA", "t", "r", "a">>,
       <<"c", "e", "s", "t", "o", "v", "n", "U+00FD", " ", "p", "a", "s">>,
       <<"p", "a", "s", "y">>,
       <<"d", "o", "k", "l", "a", "d", "y">>,
       <<"e", "D", "o", "k", "l", "a", "d", "y">>,
       <<"k", "r", "U+00ED", "z", "o", "v", "U+00E1", " ", "s", "i", "t", "u", "U+00E1", "c", "i", "a">>,
       <<"m", "i", "m", "o", "r", "i", "a", "d", "n", "a", " ", "s", "i", "t", "u", "U+00E1", "c", "i", "a">>,
       <<"b", "e", "z", "p", "e", "U+010D", "n", "o", "s", "U+0165">>,
       <<"U+00FA", "t", "o", "k">>,
       <<"a", "t", "e", "n", "t", "U+00E1", "t">>,
       <<"U+0161", "u", "t", "a", "j", " ", "e", "U+0161", "t", "o", "k", "e", "U+0161", "t", "o", "k">>,
       <<"h", "a", "m", "r", "a", "n">> >>

DennikN == <<"D", "e", "n", "n", "i", "k", "N">>
Aktuality == <<"A", "k", "t", "u", "a", "l", "i", "t", "y">>
Pravda == <<"P", "r", "a", "v", "d", "a">>
SME == <<"S", "M", "E">>
Plus1Den == <<"P", "l", "u", "s", "1", "D", "e", "n">>

\* rss_url only names the feed that is parsed
SOURCES ==
    << [name |-> DennikN, extra_keywords |-> <<>>],
       [name |-> Aktuality, extra_keywords |-> <<>>],
       [name |-> Pravda, extra_keywords |-> <<>>],
       [name |-> SME, extra_keywords |-> <<>>],
       [name |-> Plus1Den, extra_keywords |-> <<>>] >>

NumSources == Len(SOURCES)

\* header of append_alert_log
header ==
    <<"r", "u", "n", "_", "t", "i", "m", "e", ";", "s", "o", "u", "r", "c", "e", ";",
      "p", "u", "b", "l", "i", "s", "h", "e", "d", ";", "t", "i", "t", "l", "e", ";",
      "l", "i", "n", "k", "\n">>

(***************************************************************************)
(* Feed entries the model's feeds are made of.                             *)
(***************************************************************************)
Entry(link, id, title, summary, description, published, updated) ==
    [link |-> link, id |-> id, title |-> title, summary |-> summary,
     description |-> description, published |-> published, updated |-> updated]

\* a link; the title holds a keyword in upper case, blanks around it and a ";"
EntryPasy ==
    Entry(<<"u", "1">>, <<"g", "1">>, <<" ", "P", "A", "S", "Y", ";", "x", " ">>,
          <<"s", ";">>, <<>>, <<"d", ";", "1">>, <<>>)
\* a link; no keyword
EntrySport ==
    Entry(<<"u", "2">>, <<>>, <<"s", "p", "o", "r", "t">>, <<>>, <<>>, <<"d", "2">>, <<>>)
\* neither link, id nor title; the summary holds a keyword
EntryNoId ==
    Entry(<<>>, <<>>, <<>>, <<"p", "a", "s", "y">>, <<>>, <<>>, <<>>)
\* no link, an id; the description holds a keyword; updated for published
EntryUtok ==
    Entry(<<>>, <<"i", "4">>, <<"t", "4">>, <<>>, <<"U+00DA", "t", "o", "k">>,
          <<>>, <<"d", "4">>)
\* the title is the identifier, holds a keyword and a line break
EntryTwoLines ==
    Entry(<<>>, <<>>, <<"p", "a", "s", "y", "\n", "B">>, <<>>, <<>>, <<>>, <<>>)

\* a link; the title holds a keyword and a lone surrogate
EntryLone ==
    Entry(<<"u", "6">>, <<>>, <<"p", "a", "s", "y", "U+D800">>, <<>>, <<>>, <<>>, <<>>)

\* the entries the feed of the i-th source is made of; the feeds of the last
\* two sources hold no entry
EntriesOf(i) ==
    CASE i = 1 -> {EntryPasy, EntrySport, EntryNoId}
      [] i = 2 -> {EntryUtok, EntryTwoLines, EntryNoId}
      [] i = 3 -> {EntryLone}
      [] OTHER -> {}

RECURSIVE SeqsUpTo(_, _)
\* the sequences over S of length at most n
SeqsUpTo(S, n) ==
    IF n = 0 THEN {<<>>}
    ELSE LET shorter == SeqsUpTo(S, n - 1) IN
         shorter \cup {Append(f, e) : f \in shorter, e \in S}

(***************************************************************************)
(* Pure functions of the program.                                          *)
(***************************************************************************)
\* normalize_text
normalize_text(text) == IF text = <<>> THEN <<>> ELSE Lower(text)

\* article_matches_keywords
article_matches_keywords(entry, keywords) ==
    LET title == entry.title
        summary == Or(entry.summary, entry.description)
        haystack == normalize_text(title \o <<" ">> \o summary)
    IN  \E i \in 1..Len(keywords) : Contains(normalize_text(keywords[i]), haystack)

\* uid = link or entry.get("id") or entry.get("title")
UidOf(entry) == Or(entry.link, Or(entry.id, entry.title))

NoIdentifierNever(uid) == FALSE
\* if not uid: continue
NoIdentifier(uid) == uid = <<>>

\* the match fetch_source builds for an entry
MatchOf(name, entry) ==
    [source |-> name,
     title |-> Strip(entry.title),
     link |-> entry.link,
     summary |-> Strip(Or(entry.summary, entry.description)),
     published |-> Or(entry.published, entry.updated)]

\* ensure_source_key: [fault, seen]
ensure_source_key(seenv, source_name) ==
    CASE InOp(source_name, seenv) = "TypeError" ->
             [fault |-> "TypeError", seen |-> seenv]
      [] InOp(source_name, seenv) = "yes" ->
             [fault |-> "none", seen |-> seenv]
      [] OTHER ->
             IF seenv.t = "dict"
             THEN [fault |-> "none",
                   seen |-> PyDict(Store(seenv.items, source_name, PyList(<<>>)))]
             ELSE [fault |-> "TypeError", seen |-> seenv]

Outcome(fault, seenv, ms) == [fault |-> fault, seen |-> seenv, matches |-> ms]

MarkSeenNot(cur, uid) == cur
\* seen[name].append(uid)
MarkSeen(cur, uid) == PyList(Append(cur.xs, PyStr(uid)))

\* fetch_source_entry with the identifier recorded only for a match
fetch_source_entry_mark_matches(name, hit, entry, seenv, ms) ==
    LET uid == UidOf(entry) IN
    IF NoIdentifier(uid) THEN Outcome("none", seenv, ms)
    ELSE IF seenv.t # "dict" THEN Outcome("TypeError", seenv, ms)
    ELSE LET cur == Lookup(seenv.items, name) IN
         CASE InOp(uid, cur) = "TypeError" -> Outcome("TypeError", seenv, ms)
           [] InOp(uid, cur) = "yes" -> Outcome("none", seenv, ms)
           [] OTHER ->
                IF cur.t # "list" THEN Outcome("AttributeError", seenv, ms)
                ELSE IF hit
                     THEN Outcome("none",
                                  PyDict(Store(seenv.items, name, MarkSeen(cur, uid))),
                                  Append(ms, MatchOf(name, entry)))
                     ELSE Outcome("none", seenv, ms)

\* one iteration of `for entry in feed.entries` in fetch_source; hit is the
\* value of article_matches_keywords(entry, keywords)
fetch_source_entry(name, hit, entry, seenv, ms) ==
    LET uid == UidOf(entry) IN
    IF NoIdentifier(uid) THEN Outcome("none", seenv, ms)
    ELSE IF seenv.t # "dict" THEN Outcome("TypeError", seenv, ms)
    ELSE LET cur == Lookup(seenv.items, name) IN
         CASE InOp(uid, cur) = "TypeError" -> Outcome("TypeError", seenv, ms)
           [] InOp(uid, cur) = "yes" -> Outcome("none", seenv, ms)
           [] OTHER ->
                IF cur.t # "list" THEN Outcome("AttributeError", seenv, ms)
                ELSE LET marked == PyDict(Store(seenv.items, name, MarkSeen(cur, uid)))
                     IN  IF hit
                         THEN Outcome("none", marked, Append(ms, MatchOf(name, entry)))
                         ELSE Outcome("none", marked, ms)

Digits == <<"0", "1", "2", "3", "4", "5", "6", "7", "8", "9">>

\* datetime.now().strftime("%d.%m.%Y %H:%M:%S"), t seconds (t < 60) after
\* 01.01.2026 00:00:00
strftime(t) ==
    <<"0", "1", ".", "0", "1", ".", "2", "0", "2", "6", " ", "0", "0", ":", "0", "0", ":">>
        \o <<Digits[(t \div 10) + 1], Digits[(t % 10) + 1]>>

\* the line append_alert_log builds for a match
LogLine(run_time, m) ==
    LET title == Replace(m.title, ";", ",")
        link == Replace(m.link, ";", ",")
        published == Replace(m.published, ";", ",")
        source == Replace(m.source, ";", ",")
    IN  run_time \o <<";">> \o source \o <<";">> \o published \o <<";">>
            \o title \o <<";">> \o link \o <<"\n">>

\* the texts append_alert_log writes, in order: the header for a new file,
\* then the lines
LogWritesAlwaysHeader(file_exists, run_time, ms) ==
    <<header>> \o [i \in 1..Len(ms) |-> LogLine(run_time, ms[i])]
LogWrites(file_exists, run_time, ms) ==
    (IF file_exists THEN <<>> ELSE <<header>>)
        \o [i \in 1..Len(ms) |-> LogLine(run_time, ms[i])]


(***************************************************************************)
(* State.                                                                  *)
(***************************************************************************)
VARIABLES
    seenFile,     \* SEEN_FILE on disk
    alertLog,     \* ALERT_LOG_FILE on disk (data: its text)
    clock,        \* seconds on the wall clock; every run starts a second later
    pc,           \* where main() is: "idle" (no run), "loop", "fetch" (inside
                  \* fetch_source's loop), "saved", "logged"
    exit,         \* how the last run ended, "running" during a run
    seen,         \* main's seen
    srcIdx,       \* position of `for src in SOURCES`
    feedLen,      \* len(feed.entries) of the source being fetched
    entIdx,       \* position of `for entry in feed.entries`
    matches,      \* fetch_source's matches
    all_matches,  \* main's all_matches
    world,        \* the feeds every run finds, when they are fixed; else <<>>
    prev,         \* history: how the run before ended and the matches it emitted
    emitted       \* history: the matches emitted whose identifier is persisted
                  \* or may still be persisted by the current run

vars == <<seenFile, alertLog, clock, pc, exit, seen, srcIdx, feedLen, entIdx,
          matches, all_matches, world, prev, emitted>>

\* whether every run finds the same feeds
Replaying == world # <<>>

NameOf(i) == SOURCES[i].name
\* keywords = global_keywords + extra_keywords
KeywordsOf(i) == KEYWORDS \o SOURCES[i].extra_keywords

\* article_matches_keywords(entry, keywords) for every source and every entry
\* its feed may hold, evaluated once
Hits ==
    [i \in 1..NumSources |->
        [e \in EntriesOf(i) |-> article_matches_keywords(e, KeywordsOf(i))]]

U1 == <<"u", "1">>

\* an identifier that holds a lone surrogate
Lone == <<"U+D800">>

\* contents of SEEN_FILE before the first run
InitSeenFiles ==
    { NoFile,
      \* a file cut short: not JSON
      File(<<LBrace, StrTok(DennikN), Colon, LBrack, StrTok(U1)>>),
      \* what save_seen wrote
      File(json_dumps(PyDict(<<>>))),
      File(json_dumps(PyDict(<<Item(DennikN, PyList(<<PyStr(U1)>>))>>))),
      \* JSON whose string holds an escaped lone surrogate ("\ud800")
      File(json_dumps(PyDict(<<Item(DennikN, PyList(<<PyStr(Lone)>>))>>))),
      \* the same string in a list inside the list ([["\ud800"]])
      File(json_dumps(PyDict(<<Item(DennikN, PyList(<<PyList(<<PyStr(Lone)>>)>>))>>))),
      \* JSON of another shape
      File(json_dumps(PyList(<<>>))),
      File(json_dumps(PyDict(<<Item(DennikN, PyNone)>>))),
      File(json_dumps(PyDict(<<Item(DennikN, PyStr(U1))>>))) }

OldRow ==
    <<"0", "1", ".", "0", "1", ".", "2", "0", "2", "5", " ", "0", "0", ":", "0", "0",
      ":", "0", "0", ";", "S", "M", "E", ";", ";", "o", "l", "d", ";", "u", "0", "\n">>

\* contents of ALERT_LOG_FILE before the first run
InitAlertLogs ==
    { NoFile, File(<<>>), File(header \o OldRow) }

\* the entries the feed of the i-th source is made of when every run finds
\* the same feeds
ReplayEntriesOf(i) == EntriesOf(i) \ {EntryTwoLines, EntryLone}

RECURSIVE WorldsUpTo(_)
\* the feeds of the first k sources
WorldsUpTo(k) ==
    IF k = 0 THEN {<<>>}
    ELSE {Append(w, f) : w \in WorldsUpTo(k - 1),
                         f \in SeqsUpTo(ReplayEntriesOf(k), MaxFeedLen)}

\* the feeds of all sources, when every run finds the same
Worlds == WorldsUpTo(NumSources)

NoPrev == [how |-> "none", matches |-> <<>>]

\* no run of main() is under way
InitFiles ==
    /\ seenFile \in InitSeenFiles
    /\ alertLog \in InitAlertLogs
    /\ pc = "idle"
    /\ exit = "none"
    /\ seen = PyDict(<<>>)
    /\ srcIdx = 0
    /\ feedLen = 0
    /\ entIdx = 0
    /\ matches = <<>>
    /\ all_matches = <<>>
    /\ prev = NoPrev
    /\ emitted = {}

InitCommon == InitFiles /\ clock = 0

\* every fetch finds whatever the feed holds at that time
Init == InitCommon /\ world = <<>>

\* the last run of a behaviour, over whatever its feeds hold
InitLastRun == InitFiles /\ clock = MaxRuns - 1 /\ world = <<>>

\* every run finds the same feeds
InitReplay ==
    /\ InitCommon
    /\ alertLog \in {NoFile, File(header \o OldRow)}
    /\ world \in Worlds

(***************************************************************************)
(* Steps of main().                                                        *)
(***************************************************************************)
\* the value the JSON text of SEEN_FILE holds for a source: [ok, v]
Persisted(file, name) ==
    LET r == json_loads(file.data) IN
    IF file.exists /\ r.ok /\ r.v.t = "dict" /\ HasKey(r.v.items, name)
    THEN [ok |-> TRUE, v |-> Lookup(r.v.items, name)]
    ELSE [ok |-> FALSE, v |-> PyNone]

\* the identifier is in what SEEN_FILE holds for the source
IsPersisted(file, name, uid) ==
    LET p == Persisted(file, name) IN
    p.ok /\ InOp(uid, p.v) = "yes"

\* the process ends: its memory is gone, the files stay as newFile holds them
Terminate(code, how, newSeenFile) ==
    /\ pc' = "idle"
    /\ exit' = code
    /\ seen' = PyDict(<<>>)
    /\ srcIdx' = 0
    /\ feedLen' = 0
    /\ entIdx' = 0
    /\ matches' = <<>>
    /\ all_matches' = <<>>
    /\ prev' = IF Replaying
               THEN [how |-> how, matches |-> all_matches \o matches]
               ELSE prev
    /\ emitted' = {x \in emitted : IsPersisted(newSeenFile, x.source, x.uid)}
    /\ UNCHANGED <<clock, world>>

\* main, lines 278-286: load_seen and the start of the loop
MainStart ==
    /\ pc = "idle"
    /\ clock < MaxRuns
    /\ clock' = clock + 1
    /\ seen' = load_seen(seenFile)
    /\ pc' = "loop"
    /\ exit' = "running"
    /\ srcIdx' = 1
    /\ all_matches' = <<>>
    /\ UNCHANGED <<seenFile, alertLog, feedLen, entIdx, matches, world, prev, emitted>>

\* ensure_source_key raises
EnsureSourceKeyFault ==
    /\ pc = "loop"
    /\ srcIdx <= NumSources
    /\ ensure_source_key(seen, NameOf(srcIdx)).fault # "none"
    /\ UNCHANGED <<seenFile, alertLog>>
    /\ Terminate(ensure_source_key(seen, NameOf(srcIdx)).fault, "before_save", seenFile)

\* the number of entries a parse returns
ParsedLen(n) ==
    IF Replaying THEN n = Len(world[srcIdx])
    ELSE n \in 0..MaxFeedLen /\ (n > 0 => EntriesOf(srcIdx) # {})

\* ensure_source_key, then fetch_source up to `return []`: the feed has no entries
FetchNoEntries ==
    /\ pc = "loop"
    /\ srcIdx <= NumSources
    /\ ensure_source_key(seen, NameOf(srcIdx)).fault = "none"
    /\ ParsedLen(0)
    /\ seen' = ensure_source_key(seen, NameOf(srcIdx)).seen
    /\ srcIdx' = srcIdx + 1
    /\ UNCHANGED <<seenFile, alertLog, clock, pc, exit, feedLen, entIdx, matches,
                   all_matches, world, prev, emitted>>

\* ensure_source_key, then fetch_source up to its loop
FetchBegin ==
    /\ pc = "loop"
    /\ srcIdx <= NumSources
    /\ ensure_source_key(seen, NameOf(srcIdx)).fault = "none"
    /\ \E n \in 1..MaxFeedLen :
        /\ ParsedLen(n)
        /\ feedLen' = n
    /\ seen' = ensure_source_key(seen, NameOf(srcIdx)).seen
    /\ pc' = "fetch"
    /\ entIdx' = 1
    /\ matches' = <<>>
    /\ UNCHANGED <<seenFile, alertLog, clock, exit, srcIdx, all_matches, world,
                   prev, emitted>>

\* the entries the next iteration may meet
NextEntries ==
    IF Replaying THEN {world[srcIdx][entIdx]} ELSE EntriesOf(srcIdx)

\* one iteration of fetch_source's loop over the entry
ProcessEntryOf(entry) ==
    LET r == fetch_source_entry(NameOf(srcIdx), Hits[srcIdx][entry], entry, seen, matches)
    IN  IF r.fault # "none"
        THEN /\ UNCHANGED <<seenFile, alertLog>>
             /\ Terminate(r.fault, "before_save", seenFile)
        ELSE /\ seen' = r.seen
             /\ matches' = r.matches
             /\ entIdx' = entIdx + 1
             /\ emitted' =
                  IF Replaying \/ r.matches = matches THEN emitted
                  ELSE emitted \cup {[source |-> NameOf(srcIdx),
                                      uid |-> UidOf(entry),
                                      m |-> r.matches[Len(r.matches)]]}
             /\ UNCHANGED <<seenFile, alertLog, clock, pc, exit, srcIdx, feedLen,
                            all_matches, world, prev>>

ProcessEntry ==
    /\ pc = "fetch"
    /\ entIdx <= feedLen
    /\ \E entry \in NextEntries : ProcessEntryOf(entry)

\* fetch_source returns; main extends all_matches
FetchEnd ==
    /\ pc = "fetch"
    /\ entIdx > feedLen
    /\ all_matches' = all_matches \o matches
    /\ matches' = <<>>
    /\ srcIdx' = srcIdx + 1
    /\ pc' = "loop"
    /\ feedLen' = 0
    /\ entIdx' = 0
    /\ UNCHANGED <<seenFile, alertLog, clock, exit, seen, world, prev, emitted>>

\* The tokens json.dump has written when it meets the string at place i that
\* the file cannot encode: json.dump writes piece by piece, and a string of a
\* list is one piece with the "[" or "," before it.
WrittenBefore(toks, i) ==
    IF i > 1 /\ (\/ toks[i - 1] = LBrack
                 \/ toks[i - 1] = Comma /\ TokAt(toks, i + 1) # Colon)
    THEN i - 2
    ELSE i - 1

\* save_seen: the fault it raises and the file it leaves; open has emptied
\* the file before json.dump writes
save_seen(data) ==
    LET toks == json_dumps(data)
        i == FirstUnencodable(toks)
    IN  IF i = 0 THEN [fault |-> "none", file |-> File(toks)]
        ELSE [fault |-> "UnicodeEncodeError",
              file |-> File(SubSeq(toks, 1, WrittenBefore(toks, i)))]

\* main, line 294
SaveSeen ==
    /\ pc = "loop"
    /\ srcIdx > NumSources
    /\ seenFile' = save_seen(seen).file
    /\ IF save_seen(seen).fault = "none"
       THEN /\ pc' = "saved"
            /\ UNCHANGED <<alertLog, clock, exit, seen, srcIdx, feedLen, entIdx,
                           matches, all_matches, world, prev, emitted>>
       ELSE /\ UNCHANGED alertLog
            /\ Terminate(save_seen(seen).fault, "in_save", save_seen(seen).file)

\* Whether blanks follow the last of the tokens json.dump has written: the
\* indentation after "{", after the "[" of a list whose first element is a
\* list or a mapping (written as one piece before the element) and after a
\* ",", the blank after ":".
BlanksFollow(toks) ==
    toks # <<>> /\ toks[Len(toks)] \in {LBrace, LBrack, Comma, Colon}

\* The contents save_seen leaves when the write of its text stops short: a
\* beginning of what json.dump has written.  When json.dump has raised, the
\* text is written at close, and a write that stops in the blanks at its end
\* leaves all its tokens.
ShortWrites(data) ==
    LET r == save_seen(data) IN
    Cuts(r.file.data)
        \cup (IF r.fault # "none" /\ BlanksFollow(r.file.data)
              THEN {r.file.data} ELSE {})

\* save_seen raises OSError: open fails and the file stays, or the file was
\* emptied by open and the write stops short
SaveSeenFail ==
    /\ pc = "loop"
    /\ srcIdx > NumSources
    /\ \/ /\ seenFile' = seenFile
          /\ Terminate("OSError", "before_save", seenFile)
       \/ \E cut \in ShortWrites(seen) :
            /\ seenFile' = File(cut)
            /\ Terminate("OSError", "in_save", File(cut))
    /\ UNCHANGED alertLog

\* main, lines 296-298
NoMatches ==
    /\ pc = "saved"
    /\ all_matches = <<>>
    /\ UNCHANGED <<seenFile, alertLog>>
    /\ Terminate("ok", "completed", seenFile)

\* append_alert_log: the fault it raises and the file it leaves; a write of
\* a text the file cannot encode raises, the writes before it stay
append_alert_log(file, run_time, ms) ==
    LET ws == LogWrites(file.exists, run_time, ms)
        bad == {i \in 1..Len(ws) : Unencodable(ws[i])}
    IN  IF bad = {}
        THEN [fault |-> "none", file |-> File(file.data \o Flatten(ws))]
        ELSE LET i == CHOOSE i \in bad : \A j \in bad : i <= j IN
             [fault |-> "UnicodeEncodeError",
              file |-> File(file.data \o Flatten(SubSeq(ws, 1, i - 1)))]

\* main, line 301
AppendAlertLog ==
    LET r == append_alert_log(alertLog, strftime(clock), all_matches) IN
    /\ pc = "saved"
    /\ all_matches # <<>>
    /\ alertLog' = r.file
    /\ IF r.fault = "none"
       THEN /\ pc' = "logged"
            /\ UNCHANGED <<seenFile, clock, exit, seen, srcIdx, feedLen, entIdx,
                           matches, all_matches, world, prev, emitted>>
       ELSE /\ UNCHANGED seenFile
            /\ Terminate(r.fault, "after_save", seenFile)

\* append_alert_log raises OSError: open fails and the file stays as it is,
\* or the write stops short
AppendAlertLogFail ==
    /\ pc = "saved"
    /\ all_matches # <<>>
    /\ \/ alertLog' = alertLog
       \/ LET r == append_alert_log(alertLog, strftime(clock), all_matches)
              new == SubSeq(r.file.data, Len(alertLog.data) + 1, Len(r.file.data))
          IN  \E cut \in CutTexts(new) :
                alertLog' = File(alertLog.data \o cut)
    /\ UNCHANGED seenFile
    /\ Terminate("OSError", "after_save", seenFile)

\* main, lines 303-309: the notification is printed and main returns
Notify ==
    /\ pc = "logged"
    /\ UNCHANGED <<seenFile, alertLog>>
    /\ Terminate("ok", "completed", seenFile)

\* the process is ended from outside (or a fetch raises) before save_seen is
\* called
KillBeforeSaveFlush ==
    /\ pc \in {"loop", "fetch"}
    /\ seenFile' = save_seen(seen).file
    /\ UNCHANGED alertLog
    /\ Terminate("killed", "before_save", save_seen(seen).file)
KillBeforeSave ==
    /\ pc \in {"loop", "fetch"}
    /\ UNCHANGED <<seenFile, alertLog>>
    /\ Terminate("killed", "before_save", seenFile)

\* The process is ended from outside inside save_seen, after open has emptied
\* the file.  What has reached the file is a beginning of the text: nothing
\* when the process is ended at once and the text is shorter than the file's
\* buffer, the pieces json.dump has written when an interrupt is raised
\* between them (the with block closes the file), a beginning that ends at
\* any byte when the text is longer than the buffer.
KillInSaveSeen ==
    /\ pc = "loop"
    /\ srcIdx > NumSources
    /\ \E cut \in Cuts(save_seen(seen).file.data) \cup {save_seen(seen).file.data} :
        /\ seenFile' = File(cut)
        /\ Terminate("killed",
                     IF File(cut) = save_seen(seen).file /\ save_seen(seen).fault = "none"
                     THEN "after_save" ELSE "in_save",
                     File(cut))
    /\ UNCHANGED alertLog

\* the process is ended from outside after save_seen, outside append_alert_log
KillAfterSave ==
    /\ pc \in {"saved", "logged"}
    /\ UNCHANGED <<seenFile, alertLog>>
    /\ Terminate("killed", "after_save", seenFile)

\* The process is ended from outside inside append_alert_log, after open has
\* created the file when it was absent.  What has reached the file is a
\* beginning of the header and the lines: nothing when the process is ended
\* at once and the text is shorter than the file's buffer, the texts written
\* when an interrupt is raised between them (the with block closes the
\* file), a beginning that ends at any byte when the text is longer than
\* the buffer.
KillInAppendAlertLog ==
    /\ pc = "saved"
    /\ all_matches # <<>>
    /\ LET r == append_alert_log(alertLog, strftime(clock), all_matches)
           new == SubSeq(r.file.data, Len(alertLog.data) + 1, Len(r.file.data))
       IN  \E cut \in CutTexts(new) \cup {new} :
             alertLog' = File(alertLog.data \o cut)
    /\ UNCHANGED seenFile
    /\ Terminate("killed", "after_save", seenFile)

\* the steps of a run that returns or that ends by a fault its data cause
Run ==
    \/ MainStart
    \/ EnsureSourceKeyFault
    \/ FetchNoEntries
    \/ FetchBegin
    \/ ProcessEntry
    \/ FetchEnd
    \/ SaveSeen
    \/ NoMatches
    \/ AppendAlertLog
    \/ Notify

\* a run is ended from outside up to the end of save_seen
KillUpToSave ==
    \/ KillBeforeSave
    \/ KillInSaveSeen

\* a run is ended from outside
Kill ==
    \/ KillUpToSave
    \/ KillAfterSave
    \/ KillInAppendAlertLog

\* a write fails
WriteFail ==
    \/ SaveSeenFail
    \/ AppendAlertLogFail

\* the runs that return or end by a fault their data cause
Next == Run

\* the runs over whatever the feeds hold
Spec == Init /\ [][Next]_vars

\* the runs over fixed feeds
SpecReplay == InitReplay /\ [][Next]_vars

\* the runs that may also be ended from outside up to the end of save_seen
NextCrash == Run \/ KillUpToSave

\* the runs over fixed feeds that may be ended from outside
SpecCrash == InitReplay /\ [][NextCrash]_vars

\* the last run: it may also end by a write that fails or be ended from
\* outside
NextFail == Run \/ WriteFail \/ Kill

\* the last run over whatever the feeds hold
SpecFail == InitLastRun /\ [][NextFail]_vars

(***************************************************************************)
(* Helpers of the properties.                                              *)
(***************************************************************************)
RECURSIVE SplitOn(_, _)
\* text.split(sep) for a one-character sep
SplitOn(text, sep) ==
    IF \E i \in 1..Len(text) : text[i] = sep
    THEN LET n == CHOOSE i \in 1..Len(text) :
                    /\ text[i] = sep
                    /\ \A j \in 1..(i - 1) : text[j] # sep
         IN  <<SubSeq(text, 1, n - 1)>> \o SplitOn(SubSeq(text, n + 1, Len(text)), sep)
    ELSE <<text>>

IsPrefix(a, b) == Len(a) <= Len(b) /\ SubSeq(b, 1, Len(a)) = a

\* every match of the earlier run is among the matches of the later run
EmittedAgain(earlier, later) ==
    \A i \in 1..Len(earlier) : \E j \in 1..Len(later) : later[j] = earlier[i]

\* the identifiers the model's entries have
AllUids ==
    ({UidOf(e) : e \in UNION {EntriesOf(i) : i \in 1..NumSources}} \ {<<>>})
        \cup {U1, Lone}

\* what SEEN_FILE holds: the value of its JSON text, [ok, v]
Held(file) ==
    IF file.exists THEN json_loads(file.data) ELSE Failed

\* the identifier is in the sequence the value holds for the source
RecordedIn(held, name, uid) ==
    /\ held.ok
    /\ held.v.t = "dict"
    /\ HasKey(held.v.items, name)
    /\ Lookup(held.v.items, name).t = "list"
    /\ InOp(uid, Lookup(held.v.items, name)) = "yes"

\* the identifier is in the sequence SEEN_FILE holds for the source
Recorded(file, name, uid) == RecordedIn(Held(file), name, uid)

\* every identifier recorded for a source before the step is recorded after it
KeepsRecorded ==
    \/ seenFile' = seenFile
    \/ LET old == Held(seenFile)
           new == Held(seenFile')
       IN  \A i \in 1..NumSources : \A uid \in AllUids :
               RecordedIn(old, NameOf(i), uid) => RecordedIn(new, NameOf(i), uid)

\* the run has appended to the seen mapping an identifier that SEEN_FILE does
\* not hold
AppendedSinceLoad ==
    \E i \in 1..NumSources : \E uid \in AllUids :
        /\ RecordedIn([ok |-> TRUE, v |-> seen], NameOf(i), uid)
        /\ ~Recorded(seenFile, NameOf(i), uid)

HeaderLine == SubSeq(header, 1, Len(header) - 1)

\* the file starts with the header and its line break, and no later line is
\* the header
HeaderOnce(file) ==
    LET ls == SplitLines(file.data) IN
    /\ IsPrefix(header, file.data)
    /\ \A i \in 2..Len(ls) : ls[i] # HeaderLine

\* every line of the file has its line break (no earlier write was cut short)
WholeLines(file) ==
    file.data = <<>> \/ file.data[Len(file.data)] = "\n"

\* the five columns of a match's row
RowColumns(run_time, m) ==
    <<run_time, Replace(m.source, ";", ","), Replace(m.published, ";", ","),
      Replace(m.title, ";", ","), Replace(m.link, ";", ",")>>

\* the alert log holds the row of the match, written by some run so far
HasRow(file, m) ==
    \E t \in 1..clock : Contains(LogLine(strftime(t), m), file.data)

(***************************************************************************)
(* Properties.                                                             *)
(***************************************************************************)

\* C1: when a run of main() has completed and the next run finds the same
\* feeds, the next run emits no match (neither fetch_source's matches nor
\* all_matches ever hold one, append_alert_log is not reached) and the alert
\* log stays as it is.
C1_SecondRunEmitsNothing ==
    /\ [](prev.how = "completed"
            => pc # "logged" /\ matches = <<>> /\ all_matches = <<>>)
    /\ [][prev.how = "completed" => alertLog' = alertLog]_vars

\* a run reached save_seen after a completed run over the same feeds that had
\* emitted a match
C1_Witness ==
    pc = "saved" /\ prev.how = "completed" /\ prev.matches # <<>>

\* C2 as stated: whatever a step of a run does to the seen file, every
\* identifier recorded for a source stays recorded.
C2_NeverLosesIdentifier == [][KeepsRecorded]_vars

\* C2 amended: every identifier recorded for a source stays recorded by every
\* step that leaves the seen file absent or holding a whole JSON text (all
\* steps but a save_seen whose write stops short).
C2_KeepsIdentifiersUnlessCutShort ==
    [][(seenFile'.exists => json_loads(seenFile'.data).ok) => KeepsRecorded]_vars

\* the second run has saved: the identifier the first file held and the
\* ones the runs added are recorded
C2_Witness ==
    /\ pc = "saved"
    /\ clock = 2
    /\ Recorded(seenFile, DennikN, U1)
    /\ Recorded(seenFile, DennikN, UidOf(EntrySport))
    /\ Recorded(seenFile, Aktuality, UidOf(EntryUtok))

\* C3: an iteration of fetch_source over an entry with an identifier not yet
\* in the source's seen sequence appends the identifier, whether the entry
\* matches a keyword or not; an iteration over an entry already seen emits no
\* match; and once save_seen has written, every entry of every feed that has
\* an identifier is in the persisted sequence of its source.
C3_MarkSeenUnconditional ==
    /\ [](pc = "saved" =>
            \A i \in 1..NumSources : \A j \in 1..Len(world[i]) :
                UidOf(world[i][j]) # <<>>
                    => IsPersisted(seenFile, NameOf(i), UidOf(world[i][j])))
    /\ [][(pc = "fetch" /\ entIdx <= feedLen /\ entIdx' = entIdx + 1
              /\ UidOf(world[srcIdx][entIdx]) # <<>>)
            => LET uid == UidOf(world[srcIdx][entIdx])
                   cur == Lookup(seen.items, NameOf(srcIdx))
               IN  /\ InOp(uid, cur) = "no"
                        => Lookup(seen'.items, NameOf(srcIdx))
                             = PyList(Append(cur.xs, PyStr(uid)))
                   /\ InOp(uid, cur) = "yes"
                        => matches' = matches /\ seen' = seen]_vars

\* save_seen has written after a run that met an entry without a keyword
\* (now persisted) and an entry with a keyword that was already seen (no match)
C3_Witness ==
    /\ pc = "saved"
    /\ all_matches = <<>>
    /\ \E j \in 1..Len(world[1]) :
        /\ world[1][j] = EntrySport
        /\ IsPersisted(seenFile, DennikN, UidOf(EntrySport))
    /\ \E j \in 1..Len(world[1]) : world[1][j] = EntryPasy

\* C4 as stated: a run that ends after it has appended an identifier to the
\* seen mapping and before save_seen has written the mapping leaves the
\* persisted seen-state (what load_seen reads) as it was, and every match it
\* had emitted is emitted by the next run over the same feeds that reaches
\* save_seen.
C4_CrashBeforeWriteKeepsSeenState ==
    /\ [](pc = "saved" /\ prev.how \in {"before_save", "in_save"}
            => EmittedAgain(prev.matches, all_matches))
    /\ [][(pc' = "idle" /\ prev'.how \in {"before_save", "in_save"}
              /\ AppendedSinceLoad)
            => load_seen(seenFile') = load_seen(seenFile)]_vars

\* C4 amended: a run that ends before save_seen opens the seen file leaves it
\* as it was, and the next run over the same feeds that reaches save_seen
\* starts with the matches the ended run had emitted; a run that ends inside
\* save_seen before the whole text is written leaves a seen file, empty or
\* cut off, that load_seen reads as the empty mapping; in both cases every
\* match the ended run had emitted is emitted by the next run over the same
\* feeds that reaches save_seen.
C4_CrashBeforeSaveLosesNoMatch ==
    /\ [](pc = "saved" /\ prev.how \in {"before_save", "in_save"}
            => EmittedAgain(prev.matches, all_matches))
    /\ [](pc = "saved" /\ prev.how = "before_save"
            => IsPrefix(prev.matches, all_matches))
    /\ [][(pc' = "idle" /\ prev'.how = "before_save")
            => seenFile' = seenFile]_vars
    /\ [][(pc' = "idle" /\ prev'.how = "in_save")
            => seenFile'.exists /\ load_seen(seenFile') = PyDict(<<>>)]_vars
    /\ [][(pc \in {"idle", "fetch"} \/ pc' \in {"loop", "fetch"})
            => seenFile' = seenFile]_vars

\* a run has saved, with the matches emitted again, after a run that had
\* emitted them and ended inside save_seen
C4_Witness ==
    /\ pc = "saved"
    /\ prev.how = "in_save"
    /\ prev.matches # <<>>
    /\ all_matches = prev.matches

\* C5 as stated: no run ends by a fault raised in ensure_source_key or
\* fetch_source, whatever the seen file held.
C5_CorruptSeenNeverFatal == exit \notin {"TypeError", "AttributeError"}

\* C6 as stated: append_alert_log, on an alert log of whole lines, adds
\* exactly one line per match (after the header of a new file), in the order
\* of all_matches, each starting with the run's time and naming the match's
\* source, and keeps the lines before; a run without matches returns with
\* the alert log as it was.
C6_LogGrowsByMatchCount ==
    [][/\ (pc = "saved" /\ pc' = "logged" /\ WholeLines(alertLog))
            => LET old == SplitLines(alertLog.data)
                   new == SplitLines(alertLog'.data)
                   skip == IF alertLog.exists THEN 0 ELSE 1
                   n == Len(all_matches)
               IN  /\ Len(new) = Len(old) + skip + n
                   /\ SubSeq(new, 1, Len(old)) = old
                   /\ \A k \in 1..n :
                        LET cols == SplitOn(new[Len(old) + skip + k], ";") IN
                        /\ Len(cols) >= 2
                        /\ cols[1] = strftime(clock)
                        /\ cols[2] = Replace(all_matches[k].source, ";", ",")
       /\ (pc = "saved" /\ all_matches = <<>> /\ pc' = "idle")
            => alertLog' = alertLog]_vars

\* C7 as stated: after append_alert_log, whatever the alert log held before,
\* its first line is the header and no other line is.
C7_HeaderFirstAlways == pc = "logged" => HeaderOnce(alertLog)

\* C7 amended: append_alert_log on an alert log that is absent, or that starts
\* with the header line and holds it nowhere else, leaves one that starts with
\* the header line and holds it nowhere else.
C7_HeaderKept ==
    [][(pc = "saved" /\ pc' = "logged"
          /\ (~alertLog.exists \/ HeaderOnce(alertLog)))
        => HeaderOnce(alertLog')]_vars

\* the second run has appended to the alert log the first run created
C7_Witness ==
    /\ pc = "logged"
    /\ clock = 2
    /\ HeaderOnce(alertLog)
    /\ ~Contains(OldRow, alertLog.data)
    /\ Contains(strftime(1), alertLog.data)
    /\ Contains(strftime(2), alertLog.data)

\* C8 as stated: after append_alert_log on an alert log of whole lines, the
\* last lines of the alert log are the rows of all_matches, one line each,
\* each of exactly five columns: the run's time and the source, published,
\* title and link with "," for ";".
C8_FiveColumnsOneLine ==
    [][(pc = "saved" /\ pc' = "logged" /\ WholeLines(alertLog)) =>
        LET ls == SplitLines(alertLog'.data)
            n == Len(all_matches)
        IN  /\ Len(ls) >= n
            /\ \A k \in 1..n :
                SplitOn(ls[Len(ls) - n + k], ";")
                    = RowColumns(strftime(clock), all_matches[k])]_vars

\* C9: an iteration of fetch_source over an entry without link, id and title
\* changes neither the seen mapping nor the matches nor the files, even when
\* the entry holds a keyword, and the loop goes on to the next entry.
C9_NoIdentifierSkipped ==
    [][(pc = "fetch" /\ entIdx <= feedLen /\ pc' # "idle"
          /\ UidOf(world[srcIdx][entIdx]) = <<>>)
        => /\ seen' = seen
           /\ matches' = matches
           /\ all_matches' = all_matches
           /\ seenFile' = seenFile
           /\ alertLog' = alertLog
           /\ pc' = "fetch"
           /\ srcIdx' = srcIdx
           /\ entIdx' = entIdx + 1]_vars

\* the loop stands after an entry without identifier whose summary holds a
\* keyword, with another entry to come
C9_Witness ==
    /\ pc = "fetch"
    /\ entIdx >= 2
    /\ entIdx <= feedLen
    /\ UidOf(world[srcIdx][entIdx - 1]) = <<>>
    /\ Hits[srcIdx][world[srcIdx][entIdx - 1]]

\* C10 as stated: between runs, every match emitted whose identifier is in
\* the persisted seen sequence of its source has its row in the alert log.
C10_NoMatchLost ==
    pc = "idle" =>
        \A x \in emitted :
            IsPersisted(seenFile, x.source, x.uid) => HasRow(alertLog, x.m)

=============================================================================
